---- MODULE Spec2Model ----
(***************************************************************************)
(* Incident processing pipeline of the MATASA incident report platform:    *)
(* the escalation rule engine (services/escalationService.js), incident    *)
(* ingestion (services/incidentIngestionService.js) and the deduplication  *)
(* and similarity engine (services/deduplicationService.js).               *)
(*                                                                         *)
(* The record store is a generic store: `incidents`, `rules` and           *)
(* `responders` hold the persisted rows.  Times are minutes.               *)
(***************************************************************************)
EXTENDS Integers, Sequences, FiniteSets, TLC

VARIABLES
  incidents,      \* the Incident table: incidentId -> persisted row
  rules,          \* the EscalationRule table: ruleId -> persisted row
  responders,     \* the Responder table: a set of rows
  notifications,  \* SMS handed to the notification sink, in order
  now,            \* the wall clock, in minutes
  nOps,           \* number of service calls made so far
  lastOp,         \* the last service call: its name, arguments and outcome
  simIn,          \* inputs of the similarity functions (pairs of incidents)
  simOut,         \* their results
  matchIn,        \* inputs of ruleMatchesIncident (rule, incident, clock)
  matchOut,       \* its result
  confIn,         \* input of calculateConfidenceScore (an incident and its reporter's history)
  confOut,        \* its result
  sessions,       \* the UssdSession table, by session id
  lastTurn,       \* the last USSD turn: its session id, its input and the response
  msgIn,          \* a message handed to continueResponse / endResponse
  msgOut,         \* the response built from it
  phoneIn,        \* input of formatPhoneNumber
  phoneOut,       \* its result, and the result of applying it again
  limiter,        \* the rate limiter: its backend and the entries kept per key
  limitLog,       \* the checkRateLimit calls made so far, with their outcomes
  turns,          \* overlapping handleRequest executions: where each one stands
  sms,            \* the notification service: its providers, its message queue, its sends
  inflight        \* overlapping checkRateLimit executions: where each one stands

vars == <<incidents, rules, responders, notifications, now, nOps, lastOp,
          simIn, simOut, matchIn, matchOut, confIn, confOut,
          sessions, lastTurn, msgIn, msgOut, phoneIn, phoneOut, limiter, limitLog,
          turns, sms, inflight>>

storeVars == <<incidents, rules, responders, notifications, now, nOps, lastOp>>
simVars == <<simIn, simOut>>
matchVars == <<matchIn, matchOut>>
confVars == <<confIn, confOut>>
\* the state of the services the escalation and de-duplication checks leave alone
ussdVars == <<sessions, lastTurn>>
textVars == <<msgIn, msgOut>>
phoneVars == <<phoneIn, phoneOut>>
limiterVars == <<limiter, limitLog>>
raceVars == <<turns>>
sinkVars == <<sms, inflight>>
extVars == <<confVars, ussdVars, textVars, phoneVars, limiterVars, raceVars, sinkVars>>

InitConfIdle == confIn = <<>> /\ confOut = <<>>
InitUssdIdle == sessions = <<>> /\ lastTurn = <<>>
InitTextIdle == msgIn = <<>> /\ msgOut = <<>>
InitPhoneIdle == phoneIn = <<>> /\ phoneOut = <<>>
InitLimiterIdle == limiter = <<>> /\ limitLog = <<>>
InitRaceIdle == turns = <<>>
InitSinkIdle == sms = <<>> /\ inflight = <<>>
InitExtIdle ==
  InitConfIdle /\ InitUssdIdle /\ InitTextIdle /\ InitPhoneIdle /\ InitLimiterIdle
  /\ InitRaceIdle /\ InitSinkIdle

(***************************************************************************)
(* Bounds of the model.                                                    *)
(***************************************************************************)
MaxIncidents == 2
MaxOps == 3
MaxTime == 1

\* the clock at start: a Monday, 10:00
StartTime == 1440 + 600

(***************************************************************************)
(* JavaScript values.  A missing string (null / undefined) is NULL, a      *)
(* missing number is NoNum.                                                *)
(***************************************************************************)
NULL == "null"
NoNum == 0 - 1

Max(a, b) == IF a >= b THEN a ELSE b
Abs(a) == IF a >= 0 THEN a ELSE 0 - a

\* truthiness of a number: 0 and a missing number are falsy
TruthyNum(n) == n # NoNum /\ n # 0
\* truthiness of a string: null and the empty string are falsy
TruthyStr(s) == s # NULL /\ s # ""
\* a || b on numbers
OrNum(a, b) == IF TruthyNum(a) THEN a ELSE b

(***************************************************************************)
(* Escalation rules.                                                       *)
(***************************************************************************)
NoWindow == [start |-> NoNum, end |-> NoNum]

Rule(id, name, prio, active, types, sevs, chans, level, atype, aname, aphone, aorg) ==
  [ruleId |-> id, name |-> name, priority |-> prio, active |-> active,
   conditionsIncidentTypes |-> types, conditionsSeverities |-> sevs,
   conditionsStates |-> {}, conditionsLgas |-> {},
   conditionsTimeRange |-> NoWindow, conditionsDaysOfWeek |-> {},
   conditionsMinConfidence |-> NoNum, conditionsChannels |-> chans,
   escalationLevel |-> level, escalationAssigneeType |-> atype,
   escalationAssigneeName |-> aname, escalationAssigneePhone |-> aphone,
   escalationAssigneeOrganization |-> aorg,
   cooldownMinutes |-> 30, lastTriggered |-> NoNum, triggerCount |-> 0]

AllChannels == {"ussd", "web", "mobile", "api"}

\* the rules seedEscalationRules creates
SeedCritical ==
  Rule("RULE-1", "Critical Incident - All Channels", 1, TRUE,
       {"fire", "explosion", "kidnap"}, {"critical"}, AllChannels, 3,
       "agency_liaison", "Police Emergency Response", "+2348000000001", "Police")
SeedHighUssd ==
  [Rule("RULE-2", "High Severity - USSD Reports", 10, TRUE,
        {"fire", "theft", "violence", "gunshot"}, {"high"}, {"ussd"}, 2,
        "community_focal", "Community Focal Point", "+2348000000002", "Community")
   EXCEPT !.cooldownMinutes = 60]
SeedMedium ==
  [Rule("RULE-3", "Medium Severity - All Channels", 50, TRUE,
        {}, {"medium"}, AllChannels, 1,
        "community_focal", "Community Focal Point", "+2348000000002", "Community")
   EXCEPT !.cooldownMinutes = 120]
SeededRules == {SeedCritical, SeedHighUssd, SeedMedium}

\* rules an administrator may add: an inactive catch-all of top priority, and
\* two active rules of one priority that both match critical fires
AdminInactive ==
  Rule("RULE-4", "Disabled catch-all", 0, FALSE, {}, {}, {}, 5,
       "security_team", "Night Patrol", "+2348000000004", "Vigilante")
AdminFireA ==
  Rule("RULE-5", "Fire brigade", 1, TRUE, {"fire"}, {}, {}, 4,
       "agency_liaison", "Fire Service", "+2348000000005", "FireService")
AdminLowLevel ==
  Rule("RULE-6", "Fire watch", 5, TRUE, {"fire"}, {"critical", "high"}, {}, 1,
       "community_focal", "Fire Warden", "+2348000000006", "Community")
AdminRules == {AdminInactive, AdminFireA, AdminLowLevel}

RuleTable(rs) == [id \in {r.ruleId : r \in rs} |-> CHOOSE r \in rs : r.ruleId = id]


Range(f) == {f[x] : x \in DOMAIN f}

(***************************************************************************)
(* Incidents.  Incident.create fills the model's defaults: confidenceScore *)
(* 50, escalationLevel 0, no rules triggered, no assignee.                 *)
(***************************************************************************)
NoLocation ==
  [latitude |-> NoNum, longitude |-> NoNum, village |-> NULL, lga |-> NULL, state |-> NULL]

NewIncident(id, channel, type, severity, loc, sessionId, t) ==
  [incidentId |-> id, channel |-> channel, incidentType |-> type, severity |-> severity,
   locationLatitude |-> loc.latitude, locationLongitude |-> loc.longitude,
   locationVillage |-> loc.village, locationLga |-> loc.lga, locationState |-> loc.state,
   reporterSessionId |-> sessionId, descriptionText |-> NULL,
   confidenceScore |-> 50, confidenceDeDuplicationScore |-> NoNum,
   status |-> "received", escalationLevel |-> 0, escalationRulesTriggered |-> <<>>,
   escalationAssignedToType |-> NULL, escalationAssignedToName |-> NULL,
   escalationAssignedToPhone |-> NULL, escalationAssignedToOrganization |-> NULL,
   escalationEscalatedAt |-> NoNum, createdAt |-> t]

(***************************************************************************)
(* Similarity engine (deduplicationService.js).                            *)
(***************************************************************************)
similarityThreshold == 60
maxDuplicates == 5
timeWindowMinutes == 60
candidateLimit == 100

\* geolib.getDistance, in metres.  Coordinates are positions on a metre grid
\* and the inputs differ along one axis only, where this is the distance.
getDistance(a, b) == Abs(a.latitude - b.latitude) + Abs(a.longitude - b.longitude)

calculateSpatialSimilarity(loc1, loc2) ==
  IF /\ TruthyNum(loc1.latitude) /\ TruthyNum(loc1.longitude)
     /\ TruthyNum(loc2.latitude) /\ TruthyNum(loc2.longitude)
  THEN LET distance == getDistance(loc1, loc2)
       IN  IF distance <= 100 THEN 40
           ELSE IF distance <= 250 THEN 30
           ELSE IF distance <= 500 THEN 20
           ELSE IF distance <= 1000 THEN 10
           ELSE 0
  ELSE IF TruthyStr(loc1.village) /\ TruthyStr(loc2.village) /\ loc1.village = loc2.village THEN 30
  ELSE IF TruthyStr(loc1.lga) /\ TruthyStr(loc2.lga) /\ loc1.lga = loc2.lga THEN 20
  ELSE IF TruthyStr(loc1.state) /\ TruthyStr(loc2.state) /\ loc1.state = loc2.state THEN 10
  ELSE 0

calculateTemporalSimilarity(time1, time2) ==
  LET diffMinutes == Abs(time1 - time2)
  IN  IF diffMinutes <= 5 THEN 30
      ELSE IF diffMinutes <= 15 THEN 25
      ELSE IF diffMinutes <= 30 THEN 20
      ELSE IF diffMinutes <= 60 THEN 15
      ELSE IF diffMinutes <= 120 THEN 10
      ELSE 5

relatedTypes(type) ==
  CASE type = "suspicious_activity" -> {"theft", "fight", "gunshot"}
    [] type = "incident_in_progress" -> {"fire", "explosion", "violence"}
    [] type = "fire" -> {"explosion"}
    [] type = "theft" -> {"suspicious_activity"}
    [] type = "fight" -> {"violence", "suspicious_activity"}
    [] type = "gunshot" -> {"suspicious_activity", "violence"}
    [] OTHER -> {}

calculateTypeSimilarity(type1, type2) ==
  IF type1 = type2 THEN 20
  ELSE IF type2 \in relatedTypes(type1) THEN 10
  ELSE 0

severityOrder(sev) ==
  CASE sev = "critical" -> 4
    [] sev = "high" -> 3
    [] sev = "medium" -> 2
    [] sev = "low" -> 1
    [] OTHER -> NoNum

calculateSeveritySimilarity(sev1, sev2) ==
  LET s1 == OrNum(severityOrder(sev1), 2)
      s2 == OrNum(severityOrder(sev2), 2)
      diff == Abs(s1 - s2)
  IN  IF diff = 0 THEN 10 ELSE IF diff = 1 THEN 5 ELSE 0

LocationOf(incident) ==
  [latitude |-> incident.locationLatitude, longitude |-> incident.locationLongitude,
   village |-> incident.locationVillage, lga |-> incident.locationLga,
   state |-> incident.locationState]

\* totalScore in tenths: spatial * 0.4 + temporal * 0.3 + type * 0.2 + severity * 0.1
weightedTenths(incident1, incident2) ==
  4 * calculateSpatialSimilarity(LocationOf(incident1), LocationOf(incident2))
  + 3 * calculateTemporalSimilarity(incident1.createdAt, incident2.createdAt)
  + 2 * calculateTypeSimilarity(incident1.incidentType, incident2.incidentType)
  + calculateSeveritySimilarity(incident1.severity, incident2.severity)

\* Math.round((totalScore / maxScore) * 100) with maxScore = 100, in IEEE doubles:
\* (14.5 / 100) * 100 = 14.499999999999998 and (28.5 / 100) * 100 =
\* 28.499999999999996 round down; every other total rounds half up.
roundScore(tenths) ==
  IF tenths \in {145, 285} THEN tenths \div 10 ELSE (tenths + 5) \div 10

calculateSimilarity(incident1, incident2) ==
  roundScore(weightedTenths(incident1, incident2))


(***************************************************************************)
(* Deduplication service: findDuplicates.                                  *)
(***************************************************************************)
Min(a, b) == IF a <= b THEN a ELSE b

\* the orderings of a set of rows that a query with ORDER BY createdAt DESC may
\* return (rows of one createdAt come in any order)
OrderByCreatedAtDesc(S) ==
  LET n == Cardinality(S)
  IN  {p \in [1..n -> S] :
         /\ \A i, j \in 1..n : i # j => p[i] # p[j]
         /\ \A i \in 1..n : \A j \in 1..n : i < j => p[i].createdAt >= p[j].createdAt}

\* Array.prototype.sort((a, b) => b.similarity - a.similarity): a stable sort
SortBySimilarityDesc(seq) ==
  LET n == Len(seq)
      q == CHOOSE f \in [1..n -> 1..n] :
             /\ \A i, j \in 1..n : i # j => f[i] # f[j]
             /\ \A i, j \in 1..n : i < j =>
                  \/ seq[f[i]].similarity > seq[f[j]].similarity
                  \/ (seq[f[i]].similarity = seq[f[j]].similarity /\ f[i] < f[j])
  IN  [i \in 1..n |-> seq[q[i]]]

getSimilarityFactors(incident1, incident2) ==
  [spatial |-> calculateSpatialSimilarity(LocationOf(incident1), LocationOf(incident2)),
   temporal |-> calculateTemporalSimilarity(incident1.createdAt, incident2.createdAt),
   type |-> calculateTypeSimilarity(incident1.incidentType, incident2.incidentType),
   severity |-> calculateSeveritySimilarity(incident1.severity, incident2.severity)]

DuplicateEntry(incident, candidate) ==
  [incidentId |-> candidate.incidentId,
   similarity |-> calculateSimilarity(incident, candidate),
   factors |-> getSimilarityFactors(incident, candidate)]

\* the rows the candidate query of findDuplicates selects
candidatePool(incident, store, t) ==
  {c \in Range(store) :
     /\ c.incidentId # incident.incidentId
     /\ c.createdAt >= t - timeWindowMinutes
     /\ c.status \notin {"resolved", "closed", "expired"}
     /\ (TruthyStr(incident.incidentType) => c.incidentType = incident.incidentType)}

\* findDuplicates without the threshold filter
findDuplicates_NoThreshold(incident, store, t) ==
  {LET candidates == SubSeq(p, 1, Min(Len(p), candidateLimit))
       scored == [i \in 1..Len(candidates) |-> DuplicateEntry(incident, candidates[i])]
       sorted == SortBySimilarityDesc(scored)
   IN  SubSeq(sorted, 1, Min(Len(sorted), maxDuplicates))
   : p \in OrderByCreatedAtDesc(candidatePool(incident, store, t))}

\* the lists findDuplicates(incident) may return over the store at time t
findDuplicates(incident, store, t) ==
  {LET candidates == SubSeq(p, 1, Min(Len(p), candidateLimit))
       scored == [i \in 1..Len(candidates) |-> DuplicateEntry(incident, candidates[i])]
       Keep(e) == e.similarity >= similarityThreshold
       duplicates == SelectSeq(scored, Keep)
       sorted == SortBySimilarityDesc(duplicates)
   IN  SubSeq(sorted, 1, Min(Len(sorted), maxDuplicates))
   : p \in OrderByCreatedAtDesc(candidatePool(incident, store, t))}

(***************************************************************************)
(* Notification service: sendEscalationNotification reads                  *)
(* incident.escalation.assignedTo.  An Incident row has no attribute       *)
(* `escalation` (its assignee is held in the flat escalationAssignedTo*    *)
(* attributes), so the read of .assignedTo raises a TypeError.             *)
(***************************************************************************)
sendEscalationNotification(incident, ruleName, level) ==
  IF "escalation" \notin DOMAIN incident
  THEN [threw |-> TRUE, sent |-> <<>>]
  ELSE IF ~ TruthyStr(incident.escalation.assignedTo.contactPhone)
  THEN [threw |-> FALSE, sent |-> <<>>]
  ELSE [threw |-> FALSE,
        sent |-> <<[to |-> incident.escalation.assignedTo.contactPhone,
                    type |-> "escalation", incidentId |-> incident.incidentId,
                    rule |-> ruleName, priority |-> level]>>]

(***************************************************************************)
(* Escalation service.                                                     *)
(***************************************************************************)
Clock(t) == [minuteOfDay |-> t % 1440, day |-> (t \div 1440) % 7]

ruleMatchesIncident(rule, incident, clock) ==
  /\ (rule.conditionsIncidentTypes # {} =>
        incident.incidentType \in rule.conditionsIncidentTypes)
  /\ (rule.conditionsSeverities # {} =>
        incident.severity \in rule.conditionsSeverities)
  /\ (rule.conditionsStates # {} =>
        TruthyStr(incident.locationState) /\ incident.locationState \in rule.conditionsStates)
  /\ (rule.conditionsLgas # {} =>
        TruthyStr(incident.locationLga) /\ incident.locationLga \in rule.conditionsLgas)
  /\ (rule.conditionsTimeRange.start # NoNum /\ rule.conditionsTimeRange.end # NoNum =>
        /\ ~ (clock.minuteOfDay < rule.conditionsTimeRange.start
              \/ clock.minuteOfDay > rule.conditionsTimeRange.end)
        /\ (rule.conditionsDaysOfWeek # {} => clock.day \in rule.conditionsDaysOfWeek))
  /\ (TruthyNum(rule.conditionsMinConfidence) =>
        OrNum(incident.confidenceScore, 50) >= rule.conditionsMinConfidence)
  /\ (rule.conditionsChannels # {} =>
        incident.channel \in rule.conditionsChannels)

\* a matcher that leaves out the rules that have triggered before
findMatchingRules_SkipTriggered(incident, rls, clock) ==
  {r \in Range(rls) : r.active /\ r.triggerCount = 0 /\ ruleMatchesIncident(r, incident, clock)}

\* the active rules that match
findMatchingRules(incident, rls, clock) ==
  {r \in Range(rls) : r.active /\ ruleMatchesIncident(r, incident, clock)}

\* the rules that can come first in priority order (equal priorities come in
\* the order the query returns them)
firstMatchingRules(incident, rls, clock) ==
  LET m == findMatchingRules(incident, rls, clock)
  IN  {r \in m : \A q \in m : r.priority <= q.priority}

\* what a call leaves behind: the persisted incident row, the rule table, the
\* notifications sent, and how the call ended
Outcome(row, rls, sent, threw, value, ruleId) ==
  [row |-> row, rules |-> rls, sent |-> sent,
   threw |-> threw, value |-> value, ruleId |-> ruleId]

\* a copy-paste slip: the organization taken from the assignee's name
RuleAssignee_OrgFromName(rule) ==
  [type |-> rule.escalationAssigneeType, contactName |-> rule.escalationAssigneeName,
   contactPhone |-> rule.escalationAssigneePhone,
   organization |-> rule.escalationAssigneeName]

\* the assignee a rule hardcodes
RuleAssignee(rule) ==
  [type |-> rule.escalationAssigneeType, contactName |-> rule.escalationAssigneeName,
   contactPhone |-> rule.escalationAssigneePhone,
   organization |-> rule.escalationAssigneeOrganization]

WithAssignee(incident, assignee) ==
  [incident EXCEPT
     !.escalationAssignedToType = assignee.type,
     !.escalationAssignedToName = assignee.contactName,
     !.escalationAssignedToPhone = assignee.contactPhone,
     !.escalationAssignedToOrganization = assignee.organization]

applyEscalation(incident, rule, rls, t) ==
  LET saved == WithAssignee(
                 [incident EXCEPT
                    !.status = "escalated",
                    !.escalationLevel = Max(incident.escalationLevel, rule.escalationLevel),
                    !.escalationRulesTriggered = Append(@, rule.ruleId),
                    !.escalationEscalatedAt = t],
                 RuleAssignee(rule))
      n == sendEscalationNotification(saved, rule.name, rule.escalationLevel)
  IN  IF n.threw
      THEN Outcome(saved, rls, <<>>, TRUE, "TypeError", NULL)
      ELSE Outcome(saved,
                   [rls EXCEPT ![rule.ruleId].lastTriggered = t,
                               ![rule.ruleId].triggerCount = rule.triggerCount + 1],
                   n.sent, FALSE, "escalated", rule.ruleId)

DefaultResponder ==
  [type |-> "community_focal", contactName |-> "Community Focal Point",
   contactPhone |-> "+2348000000002", organization |-> "Community"]

\* the assignees getAssigneeForType may return (it picks one responder of the
\* query's result at random)
getAssigneeForType(type, incident, rsp) ==
  LET found == {r \in rsp :
                  /\ r.type = type
                  /\ r.status = "active"
                  /\ \/ (r.state = incident.locationState /\ r.lga = incident.locationLga)
                     \/ (r.state = incident.locationState /\ r.lga = NULL)
                     \/ (r.state = NULL /\ r.lga = NULL)}
  IN  IF found # {}
      THEN {[type |-> r.type, contactName |-> r.name, contactPhone |-> r.phone,
             organization |-> r.organization] : r \in found}
      ELSE {DefaultResponder}

severityToLevel(sev) ==
  CASE sev = "low" -> 0
    [] sev = "medium" -> 1
    [] sev = "high" -> 2
    [] sev = "critical" -> 3
    [] OTHER -> NoNum

\* the outcomes of applyDefaultEscalation
applyDefaultEscalation(incident, rls, rsp, t) ==
  LET level == OrNum(severityToLevel(incident.severity), 1)
  IN  IF level = 0
      THEN {Outcome([incident EXCEPT !.status = "received"], rls, <<>>,
                    FALSE, "no_matching_rules", NULL)}
      ELSE LET escalated == [incident EXCEPT
                               !.status = "escalated",
                               !.escalationLevel = level,
                               !.escalationEscalatedAt = t,
                               !.escalationRulesTriggered = Append(@, "default_severity")]
               assigneeType == IF level >= 3 THEN "agency_liaison" ELSE "community_focal"
           IN  {LET saved == WithAssignee(escalated, a)
                    n == sendEscalationNotification(saved, "Default Severity Escalation", level)
                IN  IF n.threw
                    THEN Outcome(saved, rls, <<>>, TRUE, "TypeError", NULL)
                    ELSE Outcome(saved, rls, n.sent, FALSE, "no_matching_rules", NULL)
                : a \in getAssigneeForType(assigneeType, escalated, rsp)}

\* the outcomes of processIncident(incident)
processIncident(incident, rls, rsp, t) ==
  IF incident.escalationLevel >= 5
  THEN {Outcome(incident, rls, <<>>, FALSE, "max_level_reached", NULL)}
  ELSE IF findMatchingRules(incident, rls, Clock(t)) = {}
  THEN applyDefaultEscalation(incident, rls, rsp, t)
  ELSE {applyEscalation(incident, rule, rls, t) :
          rule \in firstMatchingRules(incident, rls, Clock(t))}

\* escalateToLevel past its guard: raise, resolve the assignee, notify
raiseToLevel(incident, targetLevel, rls, rsp, t) ==
  LET raised == [incident EXCEPT
                   !.escalationLevel = targetLevel,
                   !.status = "escalated",
                   !.escalationEscalatedAt = t]
      assigneeType == IF targetLevel >= 3 THEN "agency_liaison" ELSE "community_focal"
  IN  {LET saved == WithAssignee(raised, a)
           n == sendEscalationNotification(saved, "Manual Escalation", targetLevel)
       IN  IF n.threw
           THEN Outcome(saved, rls, <<>>, TRUE, "TypeError", NULL)
           ELSE Outcome(saved, rls, n.sent, FALSE, "incident", NULL)
       : a \in getAssigneeForType(assigneeType, raised, rsp)}

\* a guard that lets an escalation to the current level through
escalateToLevel_StrictGuard(incident, targetLevel, rls, rsp, t) ==
  IF targetLevel < incident.escalationLevel
  THEN {Outcome(incident, rls, <<>>, TRUE, "cannot_deescalate", NULL)}
  ELSE raiseToLevel(incident, targetLevel, rls, rsp, t)

\* the outcomes of escalateToLevel on a stored incident
escalateToLevel(incident, targetLevel, rls, rsp, t) ==
  IF targetLevel <= incident.escalationLevel
  THEN {Outcome(incident, rls, <<>>, TRUE, "cannot_deescalate", NULL)}
  ELSE raiseToLevel(incident, targetLevel, rls, rsp, t)

(***************************************************************************)
(* Service calls on the store.                                             *)
(***************************************************************************)
NoOp ==
  [op |-> "none", id |-> 0, argNum |-> NoNum, argStr |-> NULL,
   threw |-> FALSE, value |-> NULL, ruleId |-> NULL, dups |-> <<>>]

Call(op, id, argNum, argStr, threw, value, ruleId) ==
  [op |-> op, id |-> id, argNum |-> argNum, argStr |-> argStr,
   threw |-> threw, value |-> value, ruleId |-> ruleId, dups |-> <<>>]

Put(store, row) ==
  [i \in DOMAIN store \cup {row.incidentId} |->
     IF i = row.incidentId THEN row ELSE store[i]]

OrStr(a, b) == IF TruthyStr(a) THEN a ELSE b

\* the part createFromUssd and createFromApi share: Incident.create, then
\* de-duplication, then escalation
Ingest(op, created) ==
  /\ nOps < MaxOps
  /\ created.incidentId <= MaxIncidents
  /\ \E dups \in findDuplicates(created, Put(incidents, created), now) :
       LET scored == IF Len(dups) > 0
                     THEN [created EXCEPT
                             !.confidenceDeDuplicationScore = OrNum(dups[1].similarity, 0)]
                     ELSE created
       IN  \E o \in processIncident(scored, rules, responders, now) :
             /\ incidents' = Put(incidents, o.row)
             /\ rules' = o.rules
             /\ notifications' = notifications \o o.sent
             /\ lastOp' = [Call(op, created.incidentId, NoNum, NULL, o.threw,
                                IF o.threw THEN o.value ELSE "incident", o.ruleId)
                           EXCEPT !.dups = dups]
  /\ nOps' = nOps + 1
  /\ UNCHANGED <<responders, now>>

NextIncidentId == Cardinality(DOMAIN incidents) + 1

ReportLocation(r) ==
  [latitude |-> r.latitude, longitude |-> r.longitude,
   village |-> r.village, lga |-> r.lga, state |-> r.state]

CreateFromUssd(sessionData) ==
  /\ Ingest("createFromUssd",
            NewIncident(NextIncidentId, "ussd", sessionData.incidentType,
                        OrStr(sessionData.severity, "medium"),
                        ReportLocation(sessionData), sessionData.sessionId, now))
  /\ UNCHANGED <<simVars, matchVars, extVars>>

CreateFromApi(reportData) ==
  /\ Ingest("createFromApi",
            NewIncident(NextIncidentId, OrStr(reportData.channel, "web"),
                        reportData.incidentType, OrStr(reportData.severity, "medium"),
                        ReportLocation(reportData), NULL, now))
  /\ UNCHANGED <<simVars, matchVars, extVars>>

\* processIncident on an incident loaded from the store
ProcessIncident(id) ==
  /\ nOps < MaxOps
  /\ id \in DOMAIN incidents
  /\ \E o \in processIncident(incidents[id], rules, responders, now) :
       /\ incidents' = Put(incidents, o.row)
       /\ rules' = o.rules
       /\ notifications' = notifications \o o.sent
       /\ lastOp' = Call("processIncident", id, NoNum, NULL, o.threw, o.value, o.ruleId)
  /\ nOps' = nOps + 1
  /\ UNCHANGED <<responders, now, simVars, matchVars, extVars>>

EscalateToLevel(incidentId, targetLevel) ==
  /\ nOps < MaxOps
  /\ IF incidentId \notin DOMAIN incidents
     THEN /\ lastOp' = Call("escalateToLevel", incidentId, targetLevel, NULL,
                            TRUE, "not_found", NULL)
          /\ UNCHANGED <<incidents, rules, notifications>>
     ELSE \E o \in escalateToLevel(incidents[incidentId], targetLevel, rules, responders, now) :
            /\ incidents' = Put(incidents, o.row)
            /\ rules' = o.rules
            /\ notifications' = notifications \o o.sent
            /\ lastOp' = Call("escalateToLevel", incidentId, targetLevel, NULL,
                              o.threw, o.value, NULL)
  /\ nOps' = nOps + 1
  /\ UNCHANGED <<responders, now, simVars, matchVars, extVars>>

UpdateStatus(incidentId, newStatus) ==
  /\ nOps < MaxOps
  /\ IF incidentId \notin DOMAIN incidents
     THEN /\ lastOp' = Call("updateStatus", incidentId, NoNum, newStatus,
                            TRUE, "not_found", NULL)
          /\ UNCHANGED <<incidents, rules, notifications>>
     ELSE LET saved == [incidents[incidentId] EXCEPT !.status = newStatus]
          IN  IF newStatus = "escalated"
              THEN \E o \in processIncident(saved, rules, responders, now) :
                     /\ incidents' = Put(incidents, o.row)
                     /\ rules' = o.rules
                     /\ notifications' = notifications \o o.sent
                     /\ lastOp' = Call("updateStatus", incidentId, NoNum, newStatus, o.threw,
                                       IF o.threw THEN o.value ELSE "incident", o.ruleId)
              ELSE /\ incidents' = Put(incidents, saved)
                   /\ lastOp' = Call("updateStatus", incidentId, NoNum, newStatus,
                                     FALSE, "incident", NULL)
                   /\ UNCHANGED <<rules, notifications>>
  /\ nOps' = nOps + 1
  /\ UNCHANGED <<responders, now, simVars, matchVars, extVars>>

AssignIncident(incidentId, assignee) ==
  /\ nOps < MaxOps
  /\ IF incidentId \notin DOMAIN incidents
     THEN /\ lastOp' = Call("assignIncident", incidentId, NoNum, assignee.contactName,
                            TRUE, "not_found", NULL)
          /\ UNCHANGED incidents
     ELSE /\ incidents' = Put(incidents,
                              WithAssignee([incidents[incidentId] EXCEPT !.status = "assigned"],
                                           assignee))
          /\ lastOp' = Call("assignIncident", incidentId, NoNum, assignee.contactName,
                            FALSE, "incident", NULL)
  /\ nOps' = nOps + 1
  /\ UNCHANGED <<rules, notifications, responders, now, simVars, matchVars, extVars>>

\* time passes between calls
Advance(minutes, horizon) ==
  /\ now + minutes <= StartTime + horizon
  /\ now' = now + minutes
  /\ UNCHANGED <<incidents, rules, responders, notifications, nOps, lastOp,
                 simVars, matchVars, extVars>>


(***************************************************************************)
(* The escalation engine over the store (SpecEsc).                         *)
(***************************************************************************)
Report(channel, type, severity, lat, lon, state, lga, village, sessionId) ==
  [channel |-> channel, incidentType |-> type, severity |-> severity,
   latitude |-> lat, longitude |-> lon, state |-> state, lga |-> lga,
   village |-> village, sessionId |-> sessionId]

\* USSD sessions that reach submission: no GPS, a manual location
EscSessions ==
  {Report("ussd", "fire", "critical", NoNum, NoNum, "Kano", "Dala", "Kura", "sess-1"),
   Report("ussd", "theft", "high", NoNum, NoNum, "Kano", NULL, NULL, "sess-2")}

\* API submissions; a report may leave out channel and severity
EscReports ==
  {Report("web", "theft", "low", NoNum, NoNum, "Kano", "Dala", NULL, NULL),
   Report(NULL, "theft", NULL, NoNum, NoNum, NULL, NULL, NULL, NULL),
   Report("mobile", "fire", "high", NoNum, NoNum, "Kano", "Dala", NULL, NULL)}

Responder(name, org, phone, type, status, state, lga) ==
  [name |-> name, organization |-> org, phone |-> phone, type |-> type,
   status |-> status, state |-> state, lga |-> lga]

SomeResponders ==
  {Responder("Dala Focal", "DalaCDA", "+2348000000011", "community_focal", "active", "Kano", "Dala"),
   Responder("Kano Focal", "KanoCDA", "+2348000000012", "community_focal", "active", "Kano", NULL),
   Responder("NEMA Desk", "NEMA", "+2348000000013", "agency_liaison", "active", NULL, NULL),
   Responder("Old Desk", "NEMA", "+2348000000014", "agency_liaison", "inactive", NULL, NULL)}

TargetLevels == {0, 2, 6}
NewStatuses == {"escalated", "resolved"}
ManualAssignee ==
  [type |-> "security_team", contactName |-> "Patrol One",
   contactPhone |-> "+2348000000021", organization |-> "Vigilante"]

IncidentIds == 1..MaxIncidents

InitPure ==
  /\ simIn = <<>>
  /\ simOut = <<>>
  /\ matchIn = <<>>
  /\ matchOut = <<>>
  /\ InitExtIdle

InitEsc ==
  /\ incidents = <<>>
  /\ rules \in {RuleTable({}), RuleTable(SeededRules), RuleTable(SeededRules \cup AdminRules)}
  /\ responders = SomeResponders
  /\ notifications = <<>>
  /\ now = StartTime
  /\ nOps = 0
  /\ lastOp = NoOp
  /\ InitPure

NextEsc ==
  \/ \E s \in EscSessions : CreateFromUssd(s)
  \/ \E r \in EscReports : CreateFromApi(r)
  \/ \E id \in IncidentIds : ProcessIncident(id)
  \/ \E id \in IncidentIds, lvl \in TargetLevels : EscalateToLevel(id, lvl)
  \/ \E id \in IncidentIds, st \in NewStatuses : UpdateStatus(id, st)
  \/ \E id \in IncidentIds : AssignIncident(id, ManualAssignee)
  \/ Advance(1, MaxTime)

SpecEsc == InitEsc /\ [][NextEsc]_vars


(***************************************************************************)
(* Claims about the escalation engine, checked under SpecEsc.              *)
(***************************************************************************)
\* a step that is one service call
IsCall(name) == nOps' = nOps + 1 /\ lastOp'.op = name

\* C1: over processIncident, escalateToLevel, updateStatus and assignIncident
\* calls the stored escalationLevel of an incident never decreases.
C1_LevelNeverDecreases ==
  [][\A i \in DOMAIN incidents :
       incidents'[i].escalationLevel >= incidents[i].escalationLevel]_vars

\* C2: escalateToLevel with a target level at or below the current level, or
\* with an unknown incident id, ends in an error and changes no incident and
\* sends no notification.
C2_DeescalationRejected ==
  [][(/\ IsCall("escalateToLevel")
      /\ \/ lastOp'.id \notin DOMAIN incidents
         \/ lastOp'.argNum <= incidents[lastOp'.id].escalationLevel)
     => (/\ lastOp'.threw
         /\ lastOp'.value \in {"not_found", "cannot_deescalate"}
         /\ incidents' = incidents
         /\ notifications' = notifications
         /\ rules' = rules)]_vars

\* C2 witness: an escalateToLevel to the incident's own level was rejected, at a
\* time later than the incident's escalated-at stamp.
C2_Witness ==
  /\ lastOp.op = "escalateToLevel"
  /\ lastOp.threw
  /\ lastOp.value = "cannot_deescalate"
  /\ lastOp.id \in DOMAIN incidents
  /\ incidents[lastOp.id].escalationLevel = lastOp.argNum
  /\ incidents[lastOp.id].escalationEscalatedAt # NoNum
  /\ incidents[lastOp.id].escalationEscalatedAt < now

\* the row a create call just stored, when no active rule matches it
CreatedUnmatched(row) ==
  /\ lastOp.op \in {"createFromApi", "createFromUssd"}
  /\ lastOp.id \in DOMAIN incidents
  /\ row = incidents[lastOp.id]
  /\ findMatchingRules(row, rules, Clock(now)) = {}

\* C3: when no active rule matches, a low-severity incident is not escalated
\* (status received, level unchanged, no assignee, no notification); medium
\* gives level 1, high level 2, critical level 3, each with status escalated.
C3_DefaultEscalationBySeverity ==
  \A row \in Range(incidents) :
    CreatedUnmatched(row) =>
      CASE row.severity = "low" ->
             /\ row.status = "received"
             /\ row.escalationLevel = 0
             /\ row.escalationAssignedToName = NULL
             /\ notifications = <<>>
        [] row.severity = "medium" -> row.status = "escalated" /\ row.escalationLevel = 1
        [] row.severity = "high" -> row.status = "escalated" /\ row.escalationLevel = 2
        [] row.severity = "critical" -> row.status = "escalated" /\ row.escalationLevel = 3

\* C4: when active rules match, processIncident applies exactly one, a matching
\* rule of the lowest priority number: its id alone is appended to the triggered
\* list, its trigger statistics alone change, and its id is returned.
C4_LowestPriorityRuleApplied ==
  [][(/\ IsCall("processIncident")
      /\ incidents[lastOp'.id].escalationLevel < 5
      /\ findMatchingRules(incidents[lastOp'.id], rules, Clock(now)) # {})
     => \E r \in firstMatchingRules(incidents[lastOp'.id], rules, Clock(now)) :
          /\ r.active
          /\ incidents'[lastOp'.id].escalationRulesTriggered =
               Append(incidents[lastOp'.id].escalationRulesTriggered, r.ruleId)
          /\ rules' = [rules EXCEPT ![r.ruleId].triggerCount = @ + 1,
                                    ![r.ruleId].lastTriggered = now]
          /\ ~ lastOp'.threw
          /\ lastOp'.ruleId = r.ruleId]_vars

\* C6: with the seeded rules loaded, a new incident with channel ussd, type fire
\* and severity critical is stored with status escalated, level 3 and assignee
\* organization Police, by the rule 'Critical Incident - All Channels'.
SeededLoaded == DOMAIN rules = {r.ruleId : r \in SeededRules}

NewCriticalFire(row) ==
  /\ lastOp.op = "createFromUssd"
  /\ lastOp.id \in DOMAIN incidents
  /\ row = incidents[lastOp.id]
  /\ row.channel = "ussd"
  /\ row.incidentType = "fire"
  /\ row.severity = "critical"

C6_SeededCriticalFire ==
  \A row \in Range(incidents) :
    SeededLoaded /\ NewCriticalFire(row) =>
      /\ row.status = "escalated"
      /\ row.escalationLevel = 3
      /\ row.escalationAssignedToOrganization = "Police"
      /\ row.escalationRulesTriggered = <<SeedCritical.ruleId>>

C6_Witness ==
  \E row \in Range(incidents) :
    SeededLoaded /\ NewCriticalFire(row) /\ row.locationVillage = "Kura"


(***************************************************************************)
(* ruleMatchesIncident on its own (SpecMatch): Init draws a rule, an       *)
(* incident and a clock reading, Evaluate applies the function.            *)
(***************************************************************************)
ConditionRule(types, sevs, states, lgas, window, days, minConfidence, chans) ==
  [Rule("RULE-X", "Drawn rule", 100, TRUE, types, sevs, chans, 2,
        "community_focal", "Community Focal Point", "+2348000000002", "Community")
   EXCEPT !.conditionsStates = states, !.conditionsLgas = lgas,
          !.conditionsTimeRange = window, !.conditionsDaysOfWeek = days,
          !.conditionsMinConfidence = minConfidence]

\* 08:00 to 17:00
OfficeHours == [start |-> 8 * 60, end |-> 17 * 60]

MatchRules ==
  {ConditionRule(types, sevs, states, lgas, window, days, minConfidence, chans) :
     types \in {{}, {"fire"}}, sevs \in {{}, {"critical", "high"}},
     states \in {{}, {"Kano"}}, lgas \in {{}, {"Dala"}},
     window \in {NoWindow, OfficeHours}, days \in {{}, {1}},
     minConfidence \in {NoNum, 40}, chans \in {{}, {"ussd"}}}

MatchIncidents ==
  {[NewIncident(1, channel, type, sev,
                [NoLocation EXCEPT !.state = state, !.lga = lga], NULL, StartTime)
    EXCEPT !.confidenceScore = confidence] :
     channel \in {"ussd", "web"}, type \in {"fire", "theft"},
     sev \in {"critical", "low"}, state \in {"Kano", NULL}, lga \in {"Dala", NULL},
     confidence \in {0, 30, 50}}

\* 07:00 and 10:00, on a Monday and a Tuesday
MatchClocks ==
  {[minuteOfDay |-> m, day |-> d] : m \in {7 * 60, 10 * 60}, d \in {1, 2}}

InitStoreIdle ==
  /\ incidents = <<>>
  /\ rules = RuleTable({})
  /\ responders = {}
  /\ notifications = <<>>
  /\ now = StartTime
  /\ nOps = 0
  /\ lastOp = NoOp
  /\ InitExtIdle

InitMatch ==
  /\ InitStoreIdle
  /\ simIn = <<>>
  /\ simOut = <<>>
  /\ matchIn \in {[rule |-> r, incident |-> i, clock |-> c] :
                    r \in MatchRules, i \in MatchIncidents, c \in MatchClocks}
  /\ matchOut = [done |-> FALSE, matches |-> FALSE]

EvaluateMatch ==
  /\ ~ matchOut.done
  /\ matchOut' = [done |-> TRUE,
                  matches |-> ruleMatchesIncident(matchIn.rule, matchIn.incident, matchIn.clock)]
  /\ UNCHANGED <<storeVars, simVars, matchIn, extVars>>

NextMatch == EvaluateMatch

SpecMatch == InitMatch /\ [][NextMatch]_vars

\* C5: ruleMatchesIncident is true exactly when every populated condition of the
\* rule is satisfied: type, severity, state, LGA, time window, days of week (also
\* with no time window), minimum confidence (also for a confidence score of 0)
\* and channel; an empty condition is a wildcard.
EveryPopulatedConditionHolds(rule, incident, clock) ==
  /\ (rule.conditionsIncidentTypes # {} =>
        incident.incidentType \in rule.conditionsIncidentTypes)
  /\ (rule.conditionsSeverities # {} => incident.severity \in rule.conditionsSeverities)
  /\ (rule.conditionsStates # {} => incident.locationState \in rule.conditionsStates)
  /\ (rule.conditionsLgas # {} => incident.locationLga \in rule.conditionsLgas)
  /\ (rule.conditionsTimeRange # NoWindow =>
        /\ clock.minuteOfDay >= rule.conditionsTimeRange.start
        /\ clock.minuteOfDay <= rule.conditionsTimeRange.end)
  /\ (rule.conditionsDaysOfWeek # {} => clock.day \in rule.conditionsDaysOfWeek)
  /\ (rule.conditionsMinConfidence # NoNum =>
        incident.confidenceScore >= rule.conditionsMinConfidence)
  /\ (rule.conditionsChannels # {} => incident.channel \in rule.conditionsChannels)

C5_MatchesIffEveryConditionHolds ==
  matchOut.done =>
    (matchOut.matches <=>
       EveryPopulatedConditionHolds(matchIn.rule, matchIn.incident, matchIn.clock))


(***************************************************************************)
(* The similarity functions on their own (SpecSim): Init draws two         *)
(* incidents, EvaluateSimilarity applies the functions to them.            *)
(***************************************************************************)
Gps(lat, lon) == [NoLocation EXCEPT !.latitude = lat, !.longitude = lon]
Place(village, lga, state) ==
  [NoLocation EXCEPT !.village = village, !.lga = lga, !.state = state]

\* a reference point on the metre grid
BasePoint == [latitude |-> 5000, longitude |-> 800]

\* distances that straddle the bands of the spatial score
SimOffsets == {0, 80, 100, 101, 250, 251, 500, 501, 1000, 1001}

SimLocations1 ==
  {Gps(BasePoint.latitude, BasePoint.longitude), Gps(0, BasePoint.longitude), Gps(BasePoint.latitude, 0),
   [Gps(BasePoint.latitude, BasePoint.longitude) EXCEPT !.village = "Kura", !.lga = "Dala", !.state = "Kano"],
   Place("Kura", "Dala", "Kano"), Place(NULL, "Dala", "Kano"), NoLocation}

SimLocations2 ==
  {Gps(BasePoint.latitude + d, BasePoint.longitude) : d \in SimOffsets}
  \cup {Gps(0, BasePoint.longitude), Gps(BasePoint.latitude, 0),
        Place("Kura", "Dala", "Kano"), Place("Kura", "Fagge", "Jigawa"),
        Place("Gama", "Dala", "Kano"), Place(NULL, NULL, "Kano"),
        Place("", "", ""), NoLocation}

\* report times before the reference time that straddle the temporal bands
SimAges == {0, 3, 5, 6, 15, 16, 30, 31, 60, 61, 120, 121}

SimIncident(id, type, severity, loc, t) ==
  NewIncident(id, "web", type, severity, loc, NULL, t)

InitSim ==
  /\ InitStoreIdle
  /\ matchIn = <<>>
  /\ matchOut = <<>>
  /\ simIn \in {[a |-> SimIncident(1, type1, sev1, loc1, StartTime),
                 b |-> SimIncident(2, type2, sev2, loc2, StartTime - age)] :
                  type1 \in {"fire", "explosion"}, type2 \in {"fire", "explosion"},
                  sev1 \in {"low", "high"}, sev2 \in {"low", "medium", "critical"},
                  loc1 \in SimLocations1, loc2 \in SimLocations2, age \in SimAges}
  /\ simOut = [done |-> FALSE, similarity |-> 0, spatial |-> 0]

EvaluateSimilarity ==
  /\ ~ simOut.done
  /\ simOut' = [done |-> TRUE,
                similarity |-> calculateSimilarity(simIn.a, simIn.b),
                spatial |-> calculateSpatialSimilarity(LocationOf(simIn.a),
                                                       LocationOf(simIn.b))]
  /\ UNCHANGED <<storeVars, simIn, matchVars, extVars>>

NextSim == EvaluateSimilarity

SpecSim == InitSim /\ [][NextSim]_vars

HasGps(loc) == loc.latitude # NoNum /\ loc.longitude # NoNum
Present(str) == str # NULL /\ str # ""

\* C8: calculateSimilarity is the rounded sum of the four raw sub-scores, within
\* 0..100, and is exactly 100 for two incidents with GPS positions within 100 m,
\* one type, one severity and report times within the same minute.
RawSum(a, b) ==
  calculateSpatialSimilarity(LocationOf(a), LocationOf(b))
  + calculateTemporalSimilarity(a.createdAt, b.createdAt)
  + calculateTypeSimilarity(a.incidentType, b.incidentType)
  + calculateSeveritySimilarity(a.severity, b.severity)

SameReport(a, b) ==
  /\ HasGps(LocationOf(a)) /\ HasGps(LocationOf(b))
  /\ getDistance(LocationOf(a), LocationOf(b)) <= 100
  /\ a.incidentType = b.incidentType
  /\ a.severity = b.severity
  /\ a.createdAt = b.createdAt

C8_SimilarityIsRawSum ==
  simOut.done =>
    /\ simOut.similarity = RawSum(simIn.a, simIn.b)
    /\ simOut.similarity \in 0..100
    /\ (SameReport(simIn.a, simIn.b) => simOut.similarity = 100)

\* C10: calculateSpatialSimilarity gives, when both locations have GPS
\* coordinates, 40/30/20/10/0 for at most 100/250/500/1000 m and more; when GPS
\* is missing on either side, 30 for equal villages, else 20 for equal LGAs, else
\* 10 for equal states, else 0; always one of 0, 10, 20, 30, 40.
SpatialBands(loc1, loc2) ==
  IF HasGps(loc1) /\ HasGps(loc2)
  THEN LET d == getDistance(loc1, loc2)
       IN  IF d <= 100 THEN 40 ELSE IF d <= 250 THEN 30 ELSE IF d <= 500 THEN 20
           ELSE IF d <= 1000 THEN 10 ELSE 0
  ELSE IF Present(loc1.village) /\ Present(loc2.village) /\ loc1.village = loc2.village THEN 30
  ELSE IF Present(loc1.lga) /\ Present(loc2.lga) /\ loc1.lga = loc2.lga THEN 20
  ELSE IF Present(loc1.state) /\ Present(loc2.state) /\ loc1.state = loc2.state THEN 10
  ELSE 0

C10_SpatialBands ==
  simOut.done =>
    /\ simOut.spatial = SpatialBands(LocationOf(simIn.a), LocationOf(simIn.b))
    /\ simOut.spatial \in {0, 10, 20, 30, 40}


(***************************************************************************)
(* De-duplication at ingestion (SpecDedup): reports with GPS positions     *)
(* arrive minutes apart, incidents get resolved in between.                *)
(***************************************************************************)
DedupReports ==
  {Report("web", "fire", "high", BasePoint.latitude, BasePoint.longitude, "Kano", "Dala", "Kura", NULL),
   Report("mobile", "fire", "high", BasePoint.latitude + 80, BasePoint.longitude, "Kano", "Dala", "Kura", NULL),
   Report("web", "explosion", "critical", BasePoint.latitude + 80, BasePoint.longitude, "Kano", "Dala", NULL, NULL)}

DedupSessions ==
  {Report("ussd", "fire", "high", BasePoint.latitude + 80, BasePoint.longitude, "Kano", "Dala", "Kura", "sess-3")}

\* minutes between two calls: a short wait, inside the duplicate window, and
\* a long one that leaves it
Waits == [short |-> 3, long |-> timeWindowMinutes + 1]

InitDedup ==
  /\ incidents = <<>>
  /\ rules = RuleTable({})
  /\ responders = SomeResponders
  /\ notifications = <<>>
  /\ now = StartTime
  /\ nOps = 0
  /\ lastOp = NoOp
  /\ InitPure

NextDedup ==
  \/ \E s \in DedupSessions : CreateFromUssd(s)
  \/ \E r \in DedupReports : CreateFromApi(r)
  \/ \E id \in IncidentIds : UpdateStatus(id, "resolved")
  \/ Advance(Waits.short, Waits.short * MaxTime)
  \/ Advance(Waits.long, Waits.long + Waits.short * MaxTime)

SpecDedup == InitDedup /\ [][NextDedup]_vars

Ingested == lastOp.op \in {"createFromApi", "createFromUssd"}

NearbyEarlier(row) ==
  {e \in Range(incidents) :
     /\ e.incidentId # row.incidentId
     /\ e.status \notin {"resolved", "closed", "expired"}
     /\ e.incidentType = row.incidentType
     /\ e.severity = row.severity
     /\ HasGps(LocationOf(e)) /\ HasGps(LocationOf(row))
     /\ getDistance(LocationOf(e), LocationOf(row)) = 80
     /\ e.createdAt = row.createdAt - 3}

\* C9: an incident ingested while the store holds an open incident of the same
\* type and severity, 80 m away and created 3 minutes earlier, gets that
\* incident back from findDuplicates with similarity at least 60, and its
\* deduplication sub-score is recorded as the top similarity.
C9_NearbyReportFlagged ==
  (Ingested /\ lastOp.id \in DOMAIN incidents) =>
    \A e \in NearbyEarlier(incidents[lastOp.id]) :
      /\ \E i \in 1..Len(lastOp.dups) :
           /\ lastOp.dups[i].incidentId = e.incidentId
           /\ lastOp.dups[i].similarity >= 60
      /\ Len(lastOp.dups) > 0
      /\ incidents[lastOp.id].confidenceDeDuplicationScore = lastOp.dups[1].similarity


(***************************************************************************)
(* Confidence scoring service.  The input is an incident, with its         *)
(* description given by its length and its creation time by its hour,      *)
(* and the number Incident.count returns for the reporter's last 30 days.  *)
(***************************************************************************)
channelScores(channel) ==
  CASE channel = "ussd" -> 70
    [] channel = "web" -> 60
    [] channel = "mobile" -> 80
    [] channel = "api" -> 65
    [] OTHER -> 50

\* calculateSourceReliability without the cap at 100
calculateSourceReliability_NoCap(incident, pastIncidents) ==
  LET base == channelScores(incident.channel)
      consent == IF incident.reporterCallbackConsent THEN base + 10 ELSE base
  IN  IF TruthyStr(incident.reporterPhoneNumber) /\ ~ incident.reporterAnonymous
         /\ pastIncidents > 0
      THEN consent + Min(pastIncidents * 5, 20)
      ELSE consent

calculateSourceReliability(incident, pastIncidents) ==
  LET base == channelScores(incident.channel)
      consent == IF incident.reporterCallbackConsent THEN base + 10 ELSE base
      score == IF TruthyStr(incident.reporterPhoneNumber) /\ ~ incident.reporterAnonymous
                  /\ pastIncidents > 0
               THEN consent + Min(pastIncidents * 5, 20)
               ELSE consent
  IN  Min(score, 100)

calculateTemporalScore(incident) ==
  LET hour == incident.createdHour
  IN  IF hour >= 20 \/ hour < 6 THEN 85
      ELSE IF (hour >= 6 /\ hour < 9) \/ (hour >= 17 /\ hour < 20) THEN 75
      ELSE 70

calculateSpatialScore(incident) ==
  IF TruthyNum(incident.locationLatitude) /\ TruthyNum(incident.locationLongitude)
  THEN IF TruthyNum(incident.locationAccuracy) /\ incident.locationAccuracy <= 50 THEN 95
       ELSE IF TruthyNum(incident.locationAccuracy) /\ incident.locationAccuracy <= 200 THEN 85
       ELSE 75
  ELSE IF TruthyStr(incident.locationCellTowerId) THEN 60
  ELSE IF TruthyStr(incident.locationVillage) \/ TruthyStr(incident.locationLga) THEN 50
  ELSE 30

calculateContentScore(incident) ==
  LET length == incident.descriptionLength
  IN  IF length >= 20 /\ length <= 200 THEN 85
      ELSE IF length > 0 /\ length < 20 THEN 60
      ELSE IF length > 200 THEN 70
      ELSE 50

calculateDeduplicationScore(incident) ==
  LET dedupScore == incident.confidenceDeDuplicationScore
  IN  IF ~ TruthyNum(dedupScore) THEN 50
      ELSE IF dedupScore >= 80 THEN 90
      ELSE IF dedupScore >= 60 THEN 75
      ELSE IF dedupScore >= 40 THEN 60
      ELSE 50

\* Math.round of a total given in hundredths (every total the sub-scores can
\* add up to is rounded by the double arithmetic as by the exact one)
roundHundredths(h) == (h + 50) \div 100

calculateConfidenceScore(incident, pastIncidents) ==
  LET scores == [sourceReliability |-> calculateSourceReliability(incident, pastIncidents),
                 temporal |-> calculateTemporalScore(incident),
                 spatial |-> calculateSpatialScore(incident),
                 content |-> calculateContentScore(incident),
                 deduplication |-> calculateDeduplicationScore(incident)]
      totalHundredths == 25 * scores.sourceReliability + 20 * scores.temporal
                         + 20 * scores.spatial + 20 * scores.content
                         + 15 * scores.deduplication
  IN  [score |-> roundHundredths(totalHundredths), breakdown |-> scores]

(***************************************************************************)
(* calculateConfidenceScore on its own (SpecConf).                         *)
(***************************************************************************)
\* the kinds of location an incident may carry: GPS of some accuracy, a cell
\* tower, a manual place, nothing
ConfLocations ==
  {[lat |-> BasePoint.latitude, lon |-> BasePoint.longitude, acc |-> a,
    tower |-> NULL, village |-> NULL, lga |-> NULL] : a \in {NoNum, 50, 51, 200, 201}}
  \cup {[lat |-> NoNum, lon |-> NoNum, acc |-> NoNum, tower |-> t, village |-> v, lga |-> NULL] :
          t \in {NULL, "tower-7"}, v \in {NULL, "Kura"}}
  \cup {[lat |-> 0, lon |-> BasePoint.longitude, acc |-> 10,
         tower |-> NULL, village |-> NULL, lga |-> "Dala"]}

ConfIncident(channel, consent, phone, anonymous, hour, loc, length, dedup) ==
  [channel |-> channel, reporterCallbackConsent |-> consent,
   reporterPhoneNumber |-> phone, reporterAnonymous |-> anonymous,
   createdHour |-> hour,
   locationLatitude |-> loc.lat, locationLongitude |-> loc.lon,
   locationAccuracy |-> loc.acc, locationCellTowerId |-> loc.tower,
   locationVillage |-> loc.village, locationLga |-> loc.lga,
   descriptionLength |-> length, confidenceDeDuplicationScore |-> dedup]

ConfChannels == {"ussd", "web", "mobile", "api", "sms"}
ConfHours == {5, 6, 9, 17, 19, 20}
ConfLengths == {0, 1, 19, 20, 200, 201}
ConfDedupScores == {NoNum, 0, 39, 40, 60, 80}
ConfHistory == {0, 1, 4, 5}
\* a reporter: no phone number, a number but anonymous, a known number
ConfReporters ==
  {[phone |-> NULL, anonymous |-> TRUE], [phone |-> "+2348012345678", anonymous |-> TRUE],
   [phone |-> "+2348012345678", anonymous |-> FALSE]}

InitStoreOnly ==
  /\ incidents = <<>>
  /\ rules = RuleTable({})
  /\ responders = {}
  /\ notifications = <<>>
  /\ now = StartTime
  /\ nOps = 0
  /\ lastOp = NoOp
  /\ simIn = <<>>
  /\ simOut = <<>>
  /\ matchIn = <<>>
  /\ matchOut = <<>>

InitConf ==
  /\ InitStoreOnly
  /\ InitUssdIdle /\ InitTextIdle /\ InitPhoneIdle /\ InitLimiterIdle /\ InitRaceIdle /\ InitSinkIdle
  /\ confIn \in {[incident |-> ConfIncident(ch, consent, rep.phone, rep.anonymous,
                                              hour, loc, len, dd),
                  pastIncidents |-> past] :
                   ch \in ConfChannels, consent \in BOOLEAN, rep \in ConfReporters,
                   hour \in ConfHours, loc \in ConfLocations, len \in ConfLengths,
                   dd \in ConfDedupScores, past \in ConfHistory}
  /\ confOut = [done |-> FALSE, result |-> <<>>]

EvaluateConfidence ==
  /\ ~ confOut.done
  /\ confOut' = [done |-> TRUE,
                 result |-> calculateConfidenceScore(confIn.incident, confIn.pastIncidents)]
  /\ UNCHANGED <<storeVars, simVars, matchVars, confIn, ussdVars, textVars, phoneVars,
                 limiterVars, raceVars, sinkVars>>

NextConf == EvaluateConfidence

SpecConf == InitConf /\ [][NextConf]_vars

\* C11: for every channel, consent, history count, hour, location quality,
\* description length and deduplication sub-score, calculateConfidenceScore
\* returns a score within 0..100 and a source-reliability sub-score of at
\* most 100.
C11_ConfidenceWithinRange ==
  confOut.done =>
    /\ confOut.result.score \in 0..100
    /\ confOut.result.breakdown.sourceReliability <= 100

\* a known reporter with history on the mobile channel who consented to a
\* callback: the bonuses add up to more than 100 and the cap applies
C11_Witness ==
  /\ confOut.done
  /\ confIn.incident.channel = "mobile"
  /\ confIn.incident.reporterCallbackConsent
  /\ confIn.incident.reporterPhoneNumber # NULL
  /\ ~ confIn.incident.reporterAnonymous
  /\ confIn.pastIncidents >= 4
  /\ confOut.result.breakdown.sourceReliability = 100


(***************************************************************************)
(* USSD gateway: configuration, menus and responses.  Times are in         *)
(* minutes, as in the store; the session timeout is configured in          *)
(* milliseconds.                                                           *)
(***************************************************************************)
sessionTimeoutMs == 120000
maxMessageLength == 182
maxInputLength == 160
defaultState == "Kano"

\* config.ussdMenus (the two non-ASCII characters of the Hausa timeout text
\* are written as "??")
menus ==
  [hausa |->
     [welcome |-> "MATASA Incident Report\n1. Rahota Hatsari\n2. Rahota Ayyuka\n3. Neman Taimako\n4. Karanta Alerta\n5. Maimaita",
      suspiciousActivity |-> "Ka gani wani abu?:\n1. Mace ta yi\n2. Bindiga\n3. Kwashe\n4. Satar dukiya\n5. Wani",
      incidentInProgress |-> "Nau'in ayyuka:\n1. Guba\n2. Fashe\n3. Satar\n4. Ladanci\n5. Wani",
      requestHelp |-> "Taimako:\n1. Police\n2. Fire service\n3. Ambulance\n4. Community focal",
      alert |-> "Alerta ya shiga\n{alert}",
      thankYou |-> "Na gode! Rahotonka ya isa. ID: ",
      timeout |-> "Session ya ??are. Don sake fara, sake duba *384*154011#",
      invalid |-> "Shigarwa ba daidai ba. Gwada sake."],
   english |->
     [welcome |-> "MATASA Incident Report\n1. Report Suspicious\n2. Report Incident\n3. Request Help\n4. Read Alerts\n5. Repeat",
      suspiciousActivity |-> "What did you see?:\n1. Fight\n2. Gunshot\n3. Kidnap\n4. Theft\n5. Other",
      incidentInProgress |-> "Incident type:\n1. Fire\n2. Explosion\n3. Theft\n4. Violence\n5. Other",
      requestHelp |-> "Help needed:\n1. Police\n2. Fire service\n3. Ambulance\n4. Community focal",
      alert |-> "New alert received\n{alert}",
      thankYou |-> "Thank you! Your report submitted. ID: ",
      timeout |-> "Session timed out. To restart, dial *384*154011#",
      invalid |-> "Invalid input. Try again."]]

\* menu[key]: undefined (NULL) for a key the menu does not have
MenuText(menu, key) == IF key \in DOMAIN menu THEN menu[key] ELSE NULL

getLocalizedMenu(lang) == IF lang = "hausa" THEN menus.hausa ELSE menus.english

getLocalizedPrompt(lang, promptKey) ==
  LET own == MenuText(getLocalizedMenu(lang), promptKey)
  IN  IF TruthyStr(own) THEN own
      ELSE IF lang = "hausa" THEN MenuText(menus.english, promptKey)
      ELSE ""

\* truncateForUssd with the ellipsis put after the full limit
truncateForUssd_LateCut(message) ==
  IF Len(message) <= maxMessageLength THEN message
  ELSE SubSeq(message, 1, maxMessageLength) \o "..."

truncateForUssd(message) ==
  IF Len(message) <= maxMessageLength THEN message
  ELSE SubSeq(message, 1, maxMessageLength - 3) \o "..."

\* a turn that ends in an exception returns nothing
Thrown == [response |-> "error", message |-> NULL]

\* message.length of an undefined message raises a TypeError
continueResponse(message) ==
  IF message = NULL THEN Thrown
  ELSE [response |-> "continue", message |-> truncateForUssd(message)]

endResponse(message) ==
  IF message = NULL THEN Thrown
  ELSE [response |-> "end", message |-> truncateForUssd(message)]

getMenuResponse(session, menuKey) ==
  LET message == getLocalizedPrompt(session.language, menuKey)
  IN  IF menuKey \in {"timeout", "thankYou"} THEN endResponse(message)
      ELSE continueResponse(message)

(***************************************************************************)
(* USSD gateway: sessions and the handlers of the dialogue states.         *)
(***************************************************************************)
NaN == 0 - 2

\* parseInt(input, 10) on the inputs a turn may carry
parseInt(input) ==
  CASE input = "0" -> 0
    [] input = "1" -> 1
    [] input = "2" -> 2
    [] input = "3" -> 3
    [] input = "4" -> 4
    [] input = "5" -> 5
    [] input = "9" -> 9
    [] OTHER -> NaN

createSession(sessionId, phoneNumber, t) ==
  [sessionId |-> sessionId, phoneNumber |-> phoneNumber, language |-> "hausa",
   state |-> "main_menu", dataIncidentType |-> NULL, dataSeverity |-> NULL,
   dataDescription |-> NULL, dataCallbackConsent |-> FALSE,
   lastActivityAt |-> t, endedAt |-> NoNum,
   incidentCreated |-> FALSE, incidentId |-> NoNum]

\* what a handler hands back: the session object as it left it, and its reply
Handled(session, reply) == [session |-> session, reply |-> reply]

handleInvalidState(session, input) ==
  Handled([session EXCEPT !.state = "main_menu"], getMenuResponse(session, "welcome"))

handleMainMenu(session, input, alertText) ==
  LET menu == getLocalizedMenu(session.language)
      choice == parseInt(input)
      Category(type) == [session EXCEPT !.state = "incident_category",
                                        !.dataIncidentType = type]
  IN  IF input = "" THEN Handled(session, continueResponse(menu.welcome))
      ELSE CASE choice = 1 -> Handled(Category("suspicious_activity"),
                                      continueResponse(menu.suspiciousActivity))
             [] choice = 2 -> Handled(Category("incident_in_progress"),
                                      continueResponse(menu.incidentInProgress))
             [] choice = 3 -> Handled(Category("request_help"),
                                      continueResponse(menu.requestHelp))
             [] choice = 4 -> Handled(session, endResponse(alertText))
             [] choice = 5 -> Handled(session, continueResponse(menu.welcome))
             [] OTHER -> Handled(session, getMenuResponse(session, "invalid"))

typeMap(choice) ==
  CASE choice = 1 -> "fight" [] choice = 2 -> "gunshot" [] choice = 3 -> "kidnap"
    [] choice = 4 -> "theft" [] choice = 5 -> "other"

medicalMap(choice) ==
  CASE choice = 1 -> "police" [] choice = 2 -> "fire_service"
    [] choice = 3 -> "ambulance" [] choice = 4 -> "community_focal"

handleIncidentCategory(session, input) ==
  LET choice == parseInt(input)
      Severity(s) == Handled([s EXCEPT !.state = "severity_selection"],
                             continueResponse(getLocalizedPrompt(s.language, "severity")))
  IN  IF session.dataIncidentType = "request_help"
      THEN IF choice >= 1 /\ choice <= 4
           THEN Severity([session EXCEPT !.dataIncidentType = medicalMap(choice),
                                         !.dataSeverity = "high"])
           ELSE Handled(session, getMenuResponse(session, "invalid"))
      ELSE IF choice >= 1 /\ choice <= 5
           THEN Severity([session EXCEPT !.dataIncidentType = typeMap(choice)])
           ELSE Handled(session, getMenuResponse(session, "invalid"))

severityMap(choice) ==
  CASE choice = 1 -> "low" [] choice = 2 -> "medium" [] choice = 3 -> "high"
    [] choice = 4 -> "critical"

handleSeveritySelection(session, input) ==
  LET choice == parseInt(input)
      severity == IF choice >= 1 /\ choice <= 4 THEN severityMap(choice) ELSE "medium"
  IN  Handled([session EXCEPT !.dataSeverity = severity, !.state = "location_selection"],
              continueResponse(getLocalizedPrompt(session.language, "location")))

\* handleLocationSelection that goes past the description step
handleLocationSelection_SkipDescription(session, input) ==
  LET choice == parseInt(input)
  IN  IF choice = 1 \/ choice = 2
      THEN Handled([session EXCEPT !.state = "callback_consent"],
                   continueResponse(getLocalizedPrompt(session.language, "callback")))
      ELSE Handled(session, getMenuResponse(session, "invalid"))

handleLocationSelection(session, input) ==
  LET choice == parseInt(input)
  IN  IF choice = 1 \/ choice = 2
      THEN Handled([session EXCEPT !.state = "description"],
                   continueResponse(getLocalizedPrompt(session.language, "description")))
      ELSE Handled(session, getMenuResponse(session, "invalid"))

handleDescription(session, input) ==
  Handled([session EXCEPT !.dataDescription = input, !.state = "callback_consent"],
          continueResponse(getLocalizedPrompt(session.language, "callback")))

\* the confirmation prompt: .replace on an undefined prompt raises as well;
\* the English fallback is the empty prompt, which has no placeholder
handleCallbackConsent(session, input) ==
  LET choice == parseInt(input)
  IN  Handled([session EXCEPT !.dataCallbackConsent = (choice = 1),
                              !.state = "confirmation"],
              continueResponse(getLocalizedPrompt(session.language, "confirmation")))


\* the values of the Incident model's incidentType enumeration
IncidentTypes ==
  {"suspicious_activity", "incident_in_progress", "fire", "theft", "violence",
   "gunshot", "fight", "kidnap", "explosion", "medical_emergency", "other"}

\* createIncident inside the transaction: Incident.create, then the escalation
\* engine.  The outcomes: raised or not, the incident row, what the
\* escalation engine wrote outside the transaction, and the services the call
\* went through, in order.
createIncident(session, id, rls, rsp, t) ==
  LET created == NewIncident(id, "ussd", session.dataIncidentType,
                             OrStr(session.dataSeverity, "medium"),
                             [NoLocation EXCEPT !.state = defaultState],
                             session.sessionId, t)
  IN  IF session.dataIncidentType \notin IncidentTypes
      THEN {[raised |-> TRUE, row |-> created, rules |-> rls, sent |-> <<>>,
             stages |-> <<"Incident.create">>]}
      ELSE {[raised |-> o.threw, row |-> o.row, rules |-> o.rules, sent |-> o.sent,
             stages |-> <<"Incident.create", "processIncident">>] :
              o \in processIncident(created, rls, rsp, t)}

\* handleConfirmation with the session left where it was when the unit of work
\* fails
handleConfirmation_StayOnFailure(session, input, store, rls, rsp, t) ==
  LET choice == parseInt(input)
      id == Cardinality(DOMAIN store) + 1
      Done(sess, reply, st, rl, sent) ==
        [session |-> sess, reply |-> reply, incidents |-> st, rules |-> rl, sent |-> sent]
  IN  IF choice = 1
      THEN {IF c.raised
            THEN Done(session, getMenuResponse(session, "invalid"), store, c.rules, c.sent)
            ELSE Done([session EXCEPT !.incidentCreated = TRUE, !.incidentId = id,
                                      !.state = "completed"],
                      endResponse(getLocalizedMenu(session.language).thankYou
                                    \o ToString(id)),
                      Put(store, c.row), c.rules, c.sent)
            : c \in createIncident(session, id, rls, rsp, t)}
      ELSE IF choice = 2
      THEN {Done([session EXCEPT !.state = "main_menu"],
                 getMenuResponse(session, "welcome"), store, rls, <<>>)}
      ELSE {Done(session, getMenuResponse(session, "invalid"), store, rls, <<>>)}

\* handleConfirmation without the rollback: the incident row written before
\* the failure stays in the store
handleConfirmation_NoRollback(session, input, store, rls, rsp, t) ==
  LET choice == parseInt(input)
      id == Cardinality(DOMAIN store) + 1
      Done(sess, reply, st, rl, sent) ==
        [session |-> sess, reply |-> reply, incidents |-> st, rules |-> rl, sent |-> sent]
  IN  IF choice = 1
      THEN {IF c.raised
            THEN Done([session EXCEPT !.state = "main_menu"],
                      getMenuResponse(session, "invalid"), Put(store, c.row),
                      c.rules, c.sent)
            ELSE Done([session EXCEPT !.incidentCreated = TRUE, !.incidentId = id,
                                      !.state = "completed"],
                      endResponse(getLocalizedMenu(session.language).thankYou
                                    \o ToString(id)),
                      Put(store, c.row), c.rules, c.sent)
            : c \in createIncident(session, id, rls, rsp, t)}
      ELSE IF choice = 2
      THEN {Done([session EXCEPT !.state = "main_menu"],
                 getMenuResponse(session, "welcome"), store, rls, <<>>)}
      ELSE {Done(session, getMenuResponse(session, "invalid"), store, rls, <<>>)}

\* a rollback discards the incident; the session object keeps what the handler
\* assigned before the failure
handleConfirmation(session, input, store, rls, rsp, t) ==
  LET choice == parseInt(input)
      id == Cardinality(DOMAIN store) + 1
      Done(sess, reply, st, rl, sent) ==
        [session |-> sess, reply |-> reply, incidents |-> st, rules |-> rl, sent |-> sent]
  IN  IF choice = 1
      THEN {IF c.raised
            THEN Done([session EXCEPT !.state = "main_menu"],
                      getMenuResponse(session, "invalid"), store, c.rules, c.sent)
            ELSE Done([session EXCEPT !.incidentCreated = TRUE, !.incidentId = id,
                                      !.state = "completed"],
                      endResponse(getLocalizedMenu(session.language).thankYou
                                    \o ToString(id)),
                      Put(store, c.row), c.rules, c.sent)
            : c \in createIncident(session, id, rls, rsp, t)}
      ELSE IF choice = 2
      THEN {Done([session EXCEPT !.state = "main_menu"],
                 getMenuResponse(session, "welcome"), store, rls, <<>>)}
      ELSE {Done(session, getMenuResponse(session, "invalid"), store, rls, <<>>)}

\* getHandler(session.state) applied to the session and the input
dispatch(session, input, alertText, store, rls, rsp, t) ==
  LET Only(h) == {[session |-> h.session, reply |-> h.reply, incidents |-> store,
                   rules |-> rls, sent |-> <<>>]}
  IN  CASE session.state \in {"main_menu", "completed"} ->
             Only(handleMainMenu(session, input, alertText))
        [] session.state = "incident_category" -> Only(handleIncidentCategory(session, input))
        [] session.state = "severity_selection" -> Only(handleSeveritySelection(session, input))
        [] session.state = "location_selection" -> Only(handleLocationSelection(session, input))
        [] session.state = "description" -> Only(handleDescription(session, input))
        [] session.state = "callback_consent" -> Only(handleCallbackConsent(session, input))
        [] session.state = "confirmation" ->
             handleConfirmation(session, input, store, rls, rsp, t)
        [] OTHER -> Only(handleInvalidState(session, input))

\* the inputs are given trimmed
processInput(session, input, alertText, store, rls, rsp, t) ==
  IF Len(input) > maxInputLength
  THEN {[session |-> session, reply |-> getMenuResponse(session, "invalid"),
         incidents |-> store, rules |-> rls, sent |-> <<>>]}
  ELSE dispatch(session, input, alertText, store, rls, rsp, t)

\* isSessionExpired with the idle time measured in seconds against the
\* millisecond limit
isSessionExpired_SecondsAgainstMs(session, t) ==
  (t - session.lastActivityAt) * 60 > sessionTimeoutMs

isSessionExpired(session, t) == (t - session.lastActivityAt) * 60000 > sessionTimeoutMs

\* endSession that closes a timed-out session as completed
endSession_AlwaysCompleted(session, reason, t) ==
  [session EXCEPT !.state = "completed", !.endedAt = t, !.lastActivityAt = t]

\* endSession saves the session; the model's beforeSave hook stamps lastActivityAt
endSession(session, reason, t) ==
  [session EXCEPT !.state = IF reason = "timeout" THEN "timeout" ELSE "completed",
                  !.endedAt = t, !.lastActivityAt = t]

\* handleRequest: the outcomes of one turn over the session table `tbl`.  A
\* turn whose handler raises saves nothing but a session it just created.
handleRequest(sessionId, phoneNumber, input, alertText, tbl, store, rls, rsp, t) ==
  LET session == IF sessionId \in DOMAIN tbl THEN tbl[sessionId]
                 ELSE createSession(sessionId, phoneNumber, t)
      found == [id \in DOMAIN tbl \cup {sessionId} |->
                  IF id = sessionId THEN session ELSE tbl[id]]
      End(table, reply, st, rl, sent) ==
        [sessions |-> table, reply |-> reply, incidents |-> st, rules |-> rl, sent |-> sent]
  IN  IF isSessionExpired(session, t)
      THEN LET ended == endSession(session, "timeout", t)
           IN  {End([found EXCEPT ![sessionId] = ended],
                    getMenuResponse(ended, "timeout"), store, rls, <<>>)}
      ELSE {IF r.reply = Thrown
            THEN End(found, Thrown, r.incidents, r.rules, r.sent)
            ELSE IF r.session # session
            THEN End([found EXCEPT ![sessionId] = [r.session EXCEPT !.lastActivityAt = t]],
                     r.reply, r.incidents, r.rules, r.sent)
            ELSE End(found, r.reply, r.incidents, r.rules, r.sent)
            : r \in processInput(session, input, alertText, store, rls, rsp, t)}

NoTurn ==
  [sessionId |-> NULL, input |-> NULL, response |-> NULL, message |-> NULL, at |-> NoNum]

\* one turn delivered by the USSD webhook
HandleRequest(sessionId, phoneNumber, input, alertText) ==
  /\ nOps < MaxOps
  /\ Cardinality(DOMAIN incidents) < MaxIncidents
  /\ \E r \in handleRequest(sessionId, phoneNumber, input, alertText,
                            sessions, incidents, rules, responders, now) :
       /\ sessions' = r.sessions
       /\ incidents' = r.incidents
       /\ rules' = r.rules
       /\ notifications' = notifications \o r.sent
       /\ lastTurn' = [sessionId |-> sessionId, input |-> input,
                       response |-> r.reply.response, message |-> r.reply.message,
                       at |-> now]
  /\ nOps' = nOps + 1
  /\ UNCHANGED <<responders, now, lastOp, simVars, matchVars, confVars, textVars,
                 phoneVars, limiterVars, raceVars, sinkVars>>


(***************************************************************************)
(* The USSD dialogue over the session table (SpecUssd).  The table         *)
(* outlives the service: it starts empty or with a session that earlier    *)
(* turns left in some dialogue state.                                      *)
(***************************************************************************)
StoredSession(sessionId, language, state, type, severity, description, consent) ==
  [createSession(sessionId, "+2348012345678", StartTime) EXCEPT
     !.language = language, !.state = state, !.dataIncidentType = type,
     !.dataSeverity = severity, !.dataDescription = description,
     !.dataCallbackConsent = consent]

\* the draft a session holds when it is in a dialogue state
DraftAt(sessionId, language, state) ==
  CASE state = "main_menu" ->
         StoredSession(sessionId, language, state, NULL, NULL, NULL, FALSE)
    [] state = "incident_category" ->
         StoredSession(sessionId, language, state, "suspicious_activity", NULL, NULL, FALSE)
    [] state = "severity_selection" ->
         StoredSession(sessionId, language, state, "kidnap", NULL, NULL, FALSE)
    [] state = "location_selection" ->
         StoredSession(sessionId, language, state, "kidnap", "critical", NULL, FALSE)
    [] state = "description" ->
         StoredSession(sessionId, language, state, "kidnap", "critical", NULL, FALSE)
    [] state = "callback_consent" ->
         StoredSession(sessionId, language, state, "kidnap", "critical", "near the market", FALSE)
    [] OTHER ->
         StoredSession(sessionId, language, state, "kidnap", "critical", "near the market", TRUE)

DialogueStates ==
  {"main_menu", "incident_category", "severity_selection", "location_selection",
   "description", "callback_consent", "confirmation"}

StoredSessions ==
  {DraftAt("sess-1", lang, st) : lang \in {"hausa", "english"}, st \in DialogueStates}
  \cup {StoredSession("sess-1", "hausa", "incident_category", "request_help", NULL, NULL, FALSE),
        StoredSession("sess-1", "english", "incident_category", "request_help", NULL, NULL,
                      FALSE),
        StoredSession("sess-1", "english", "confirmation", "police", "high", "", FALSE),
        StoredSession("sess-1", "english", "timeout", "kidnap", "critical", "", FALSE)}

\* a session that an earlier dialogue completed, and the incident it reported
LinkedSession ==
  [StoredSession("sess-1", "english", "completed", "theft", "high", "at the shop", FALSE)
     EXCEPT !.incidentCreated = TRUE, !.incidentId = 1, !.endedAt = NoNum]
LinkedIncident ==
  NewIncident(1, "ussd", "theft", "high", [NoLocation EXCEPT !.state = defaultState],
              "sess-1", StartTime)

SessionTable(S) == [id \in {x.sessionId : x \in S} |-> CHOOSE x \in S : x.sessionId = id]

Ten == "0123456789"
Fifty == Ten \o Ten \o Ten \o Ten \o Ten
\* an input of 161 characters
LongInput == Fifty \o Fifty \o Fifty \o Ten \o "x"
UssdInputs == {"", "1", "2", "3", "4", "5", "9", "near the market", LongInput}
UssdSessionIds == {"sess-1", "sess-2"}

\* what getLatestAlerts may return: the text for no alerts, or three alerts of
\* 100 characters each with their ids
AlertTexts ==
  {"No new alerts.",
   "ALT-1: " \o Fifty \o Fifty \o "\n\nALT-2: " \o Fifty \o Fifty
     \o "\n\nALT-3: " \o Fifty \o Fifty}

InitUssd ==
  /\ \/ /\ incidents = <<>>
        /\ sessions \in {SessionTable({})} \cup {SessionTable({x}) : x \in StoredSessions}
     \/ /\ incidents = Put(<<>>, LinkedIncident)
        /\ sessions = SessionTable({LinkedSession})
  /\ rules = RuleTable(SeededRules)
  /\ responders = SomeResponders
  /\ notifications = <<>>
  /\ now = StartTime
  /\ nOps = 0
  /\ lastOp = NoOp
  /\ simIn = <<>>
  /\ simOut = <<>>
  /\ matchIn = <<>>
  /\ matchOut = <<>>
  /\ InitConfIdle /\ InitTextIdle /\ InitPhoneIdle /\ InitLimiterIdle /\ InitRaceIdle /\ InitSinkIdle
  /\ lastTurn = NoTurn

NextUssd ==
  \/ \E id \in UssdSessionIds, input \in UssdInputs :
       \E alertText \in IF input = "4" THEN AlertTexts ELSE {"No new alerts."} :
         HandleRequest(id, "+2348012345678", input, alertText)
  \/ Advance(2, 2 * MaxTime)
  \/ Advance(3, 3 * MaxTime)

SpecUssd == InitUssd /\ [][NextUssd]_vars


\* a turn was handled for session `id`, which the table already held
TurnOn(id) ==
  /\ nOps' = nOps + 1
  /\ lastTurn'.sessionId = id
  /\ id \in DOMAIN sessions

\* the session was last active within the configured 120 seconds
WithinTimeout(id) == (now - sessions[id].lastActivityAt) * 60 <= 120

Draft(session) ==
  <<session.dataIncidentType, session.dataSeverity, session.dataDescription,
    session.dataCallbackConsent>>

\* the numeric choices a dialogue state offers
ValidChoices(session) ==
  CASE session.state = "main_menu" -> 1..5
    [] session.state = "incident_category" ->
         IF session.dataIncidentType = "request_help" THEN 1..4 ELSE 1..5
    [] session.state = "severity_selection" -> 1..4
    [] session.state = "location_selection" -> 1..2
    [] session.state = "callback_consent" -> 1..2
    [] session.state = "confirmation" -> 1..2
    [] OTHER -> {}

NumericStates ==
  {"main_menu", "incident_category", "severity_selection", "location_selection",
   "callback_consent", "confirmation"}

C13_ExpiredSessionTimesOut ==
  [][\A id \in UssdSessionIds :
       (TurnOn(id) /\ ~ WithinTimeout(id))
       => (/\ sessions'[id].state = "timeout"
           /\ lastTurn'.response = "end"
           /\ lastTurn'.message = getLocalizedMenu(sessions[id].language).timeout
           /\ Draft(sessions'[id]) = Draft(sessions[id])
           /\ sessions'[id].incidentCreated = sessions[id].incidentCreated
           /\ incidents' = incidents
           /\ notifications' = notifications)]_vars

\* a session that waited at the confirmation step got input 1 as its first
\* turn after the timeout had passed
C13_Witness ==
  /\ nOps = 1
  /\ lastTurn.sessionId = "sess-1"
  /\ lastTurn.input = "1"
  /\ lastTurn.response = "end"
  /\ sessions["sess-1"].state = "timeout"
  /\ sessions["sess-1"].dataCallbackConsent
  /\ sessions["sess-1"].endedAt = now
  /\ now > StartTime + 2
  /\ incidents = <<>>

C16_FailedConfirmationRestarts ==
  [][\A id \in UssdSessionIds :
       (/\ TurnOn(id)
        /\ WithinTimeout(id)
        /\ sessions[id].state = "confirmation"
        /\ lastTurn'.input = "1"
        /\ \A c \in createIncident(sessions[id], Cardinality(DOMAIN incidents) + 1,
                                   rules, responders, now) : c.raised)
       => (/\ lastTurn'.response = "continue"
           /\ sessions'[id].state = "main_menu"
           /\ incidents' = incidents)]_vars

\* after the failed confirmation the next turn was handled as a main-menu turn
C16_Witness ==
  /\ nOps = 2
  /\ lastTurn.sessionId = "sess-1"
  /\ lastTurn.input = "2"
  /\ lastTurn.response = "continue"
  /\ sessions["sess-1"].state = "incident_category"
  /\ sessions["sess-1"].dataIncidentType = "incident_in_progress"
  /\ sessions["sess-1"].dataCallbackConsent
  /\ sessions["sess-1"].dataDescription = "near the market"
  /\ incidents = <<>>

(***************************************************************************)
(* Response building: continueResponse and endResponse on messages whose   *)
(* lengths lie around maxMessageLength.                                    *)
(***************************************************************************)
RECURSIVE Repeat(_, _)
Repeat(str, n) == IF n = 0 THEN "" ELSE str \o Repeat(str, n - 1)

TextBases == {Repeat(Ten, 20), Repeat("abcdefghij", 20), Repeat("Rahota! ", 25)}
TextLengths == 176 .. 188
TextMessages ==
  {SubSeq(base, 1, n) : base \in TextBases, n \in TextLengths}
    \cup AlertTexts
    \cup {menus.hausa.welcome, menus.english.timeout, ""}

NoResponse == [response |-> "none", message |-> ""]

InitText ==
  /\ InitStoreOnly
  /\ InitConfIdle /\ InitUssdIdle /\ InitPhoneIdle /\ InitLimiterIdle /\ InitRaceIdle /\ InitSinkIdle
  /\ msgIn \in TextMessages
  /\ msgOut = NoResponse

ContinueResponse ==
  /\ msgOut = NoResponse
  /\ msgOut' = continueResponse(msgIn)
  /\ UNCHANGED <<storeVars, simVars, matchVars, confVars, ussdVars, msgIn, phoneVars,
                 limiterVars, raceVars, sinkVars>>

EndResponse ==
  /\ msgOut = NoResponse
  /\ msgOut' = endResponse(msgIn)
  /\ UNCHANGED <<storeVars, simVars, matchVars, confVars, ussdVars, msgIn, phoneVars,
                 limiterVars, raceVars, sinkVars>>

NextText == ContinueResponse \/ EndResponse

SpecText == InitText /\ [][NextText]_vars

\* C17: a response message is never longer than maxMessageLength: a message
\* within the limit is returned unchanged, a longer one is cut to its first
\* maxMessageLength - 3 characters followed by '...'.
C17_MessageWithinLimit ==
  msgOut.response \in {"continue", "end"} =>
    /\ Len(msgOut.message) <= maxMessageLength
    /\ Len(msgIn) <= maxMessageLength => msgOut.message = msgIn
    /\ Len(msgIn) > maxMessageLength =>
         msgOut.message = SubSeq(msgIn, 1, maxMessageLength - 3) \o "..."

\* a message longer than the limit has been cut to exactly the limit
C17_Witness ==
  /\ msgOut.response \in {"continue", "end"}
  /\ Len(msgIn) > maxMessageLength
  /\ Len(msgOut.message) = maxMessageLength
  /\ msgOut.message # msgIn

(***************************************************************************)
(* Rate limiter: a sliding window per key, kept in a Redis sorted set or,  *)
(* when Redis is not used, in a map of arrays.  The clock is now; windows  *)
(* are lengths on that clock.                                              *)
(***************************************************************************)
\* the limiter after its constructor: no client, and memoryStore not yet set
\* (hasStore tells whether this.memoryStore is a Map)
NewLimiter ==
  [initialized |-> FALSE, client |-> FALSE, reachable |-> FALSE,
   hasStore |-> FALSE, memoryStore |-> <<>>, zsets |-> <<>>]

EntriesOf(store, key) == IF key \in DOMAIN store THEN store[key] ELSE <<>>
MembersOf(zsets, key) == IF key \in DOMAIN zsets THEN zsets[key] ELSE {}
SetKey(store, key, value) ==
  [k \in DOMAIN store \cup {key} |-> IF k = key THEN value ELSE store[k]]

Verdict(limited, remaining) ==
  [limited |-> limited, remaining |-> remaining, threw |-> FALSE]
\* the promise of checkRateLimit rejects
Rejected == [limited |-> NULL, remaining |-> NULL, threw |-> TRUE]

\* zRemRangeByScore(key, '-inf', windowStart), zCard, zAdd with the timestamp
\* as the member: a member of the same value is replaced, not added
checkRedisRateLimit(lim, key, windowMs, maxRequests, t) ==
  LET windowStart == t - windowMs
      kept == {m \in MembersOf(lim.zsets, key) : m.score > windowStart}
      count == Cardinality(kept)
      added == {m \in kept : m.value # ToString(t)}
                 \cup {[score |-> t, value |-> ToString(t)]}
  IN  IF count >= maxRequests
        THEN [limiter |-> [lim EXCEPT !.zsets = SetKey(lim.zsets, key, kept)],
              result |-> Verdict(TRUE, 0)]
        ELSE [limiter |-> [lim EXCEPT !.zsets = SetKey(lim.zsets, key, added)],
              result |-> Verdict(FALSE, maxRequests - count - 1)]

checkMemoryRateLimit(lim, key, windowMs, maxRequests, t) ==
  LET windowStart == t - windowMs
      validEntries == SelectSeq(EntriesOf(lim.memoryStore, key),
                                LAMBDA e : e >= windowStart)
      count == Len(validEntries)
  IN  IF count >= maxRequests
        THEN [limiter |-> [lim EXCEPT !.memoryStore = SetKey(@, key, validEntries)],
              result |-> Verdict(TRUE, 0)]
        ELSE [limiter |->
                [lim EXCEPT !.memoryStore = SetKey(@, key, Append(validEntries, t))],
              result |-> Verdict(FALSE, maxRequests - count - 1)]

\* the Redis branch returns the promise of checkRedisRateLimit without awaiting
\* it, so its rejection passes the catch block; an exception of the synchronous
\* memory branch (no memoryStore) is caught and the request is let through
checkRateLimit(lim, identifier, prefix, windowMs, maxRequests, t) ==
  LET key == prefix \o ":" \o identifier
  IN  IF lim.client
        THEN IF lim.reachable
               THEN checkRedisRateLimit(lim, key, windowMs, maxRequests, t)
               ELSE [limiter |-> lim, result |-> Rejected]
        ELSE IF ~lim.hasStore
               THEN [limiter |-> lim, result |-> Verdict(FALSE, maxRequests)]
               ELSE checkMemoryRateLimit(lim, key, windowMs, maxRequests, t)

\* init(): a Redis client when the connection succeeds, the memory store when
\* Redis is skipped or cannot be reached
InitLimiter(redisConnects) ==
  /\ ~limiter.initialized
  /\ limiter' = IF redisConnects
                  THEN [limiter EXCEPT !.initialized = TRUE, !.client = TRUE,
                                       !.reachable = TRUE]
                  ELSE [limiter EXCEPT !.initialized = TRUE, !.hasStore = TRUE]
  /\ UNCHANGED <<storeVars, simVars, matchVars, confVars, ussdVars, textVars, phoneVars,
                 limitLog, raceVars, sinkVars>>

\* the connection to Redis is lost; the client does not reconnect
RedisLost ==
  /\ limiter.client /\ limiter.reachable
  /\ limiter' = [limiter EXCEPT !.reachable = FALSE]
  /\ UNCHANGED <<storeVars, simVars, matchVars, confVars, ussdVars, textVars, phoneVars,
                 limitLog, raceVars, sinkVars>>

LimitOptions == [windowMs |-> 2, maxRequests |-> 2]
LimitIdentifiers == {"2348012345678", "2348087654321"}

\* the server takes requests once init() has returned
CheckRateLimit(identifier) ==
  /\ limiter.initialized
  /\ Len(limitLog) < MaxOps
  /\ LET out == checkRateLimit(limiter, identifier, "ussd", LimitOptions.windowMs,
                               LimitOptions.maxRequests, now)
     IN  /\ limiter' = out.limiter
         /\ limitLog' = Append(limitLog,
              [identifier |-> identifier, t |-> now,
               backendFailed |-> limiter.client /\ ~limiter.reachable,
               redis |-> limiter.client,
               result |-> out.result])
  /\ UNCHANGED <<storeVars, simVars, matchVars, confVars, ussdVars, textVars, phoneVars,
                 raceVars, sinkVars>>

InitLimit ==
  /\ InitStoreOnly
  /\ InitConfIdle /\ InitUssdIdle /\ InitTextIdle /\ InitPhoneIdle /\ InitRaceIdle /\ InitSinkIdle
  /\ limiter = NewLimiter
  /\ limitLog = <<>>

NextLimit ==
  \/ \E redisConnects \in BOOLEAN : InitLimiter(redisConnects)
  \/ \E identifier \in LimitIdentifiers : CheckRateLimit(identifier)
  \/ RedisLost
  \/ Advance(1, 3 * MaxTime)

SpecLimit == InitLimit /\ [][NextLimit]_vars

\* the calls of one key admitted before call i, at or after time from
AdmittedBefore(i, from) ==
  {j \in 1 .. (i - 1) :
     /\ limitLog[j].identifier = limitLog[i].identifier
     /\ ~limitLog[j].result.threw
     /\ limitLog[j].result.limited = FALSE
     /\ limitLog[j].t >= from}

\* C18: a call whose backend works is admitted while fewer than maxRequests
\* calls of its key were admitted in the last windowMs, and is answered
\* limited with remaining 0 once maxRequests were admitted in that window;
\* calls of other keys do not count.
C18_SlidingWindowLimit ==
  \A i \in 1 .. Len(limitLog) :
    ~limitLog[i].backendFailed =>
      LET call == limitLog[i]
          windowStart == call.t - LimitOptions.windowMs
      IN  /\ Cardinality(AdmittedBefore(i, windowStart)) < LimitOptions.maxRequests
               => call.result.limited = FALSE
          /\ Cardinality(AdmittedBefore(i, windowStart + 1)) >= LimitOptions.maxRequests
               => call.result.limited = TRUE /\ call.result.remaining = 0

\* C19: a call during which the backend raises an error completes normally
\* and lets the request through.
C19_BackendErrorFailsOpen ==
  \A i \in 1 .. Len(limitLog) :
    limitLog[i].backendFailed =>
      ~limitLog[i].result.threw /\ limitLog[i].result.limited = FALSE

(***************************************************************************)
(* Notification service: formatPhoneNumber on the written forms of         *)
(* subscriber numbers and on input that is no phone number.                *)
(***************************************************************************)
DigitChars == {"0", "1", "2", "3", "4", "5", "6", "7", "8", "9"}

\* phone.replace(/\D/g, '')
RECURSIVE removeNonDigits(_)
removeNonDigits(str) ==
  IF str = "" THEN ""
  ELSE LET first == SubSeq(str, 1, 1)
           rest == removeNonDigits(SubSeq(str, 2, Len(str)))
       IN  IF first \in DigitChars THEN first \o rest ELSE rest

startsWith(str, prefix) ==
  Len(str) >= Len(prefix) /\ SubSeq(str, 1, Len(prefix)) = prefix

\* formatPhoneNumber that keeps the trunk zero of the local form
formatPhoneNumber_KeepTrunkZero(phone) ==
  IF phone = NULL \/ phone = "" THEN NULL
  ELSE LET digits == removeNonDigits(phone)
       IN  IF startsWith(digits, "234") THEN "+" \o digits
           ELSE IF startsWith(digits, "0") THEN "+234" \o digits
           ELSE IF Len(digits) = 10 THEN "+234" \o digits
           ELSE "+" \o digits

formatPhoneNumber(phone) ==
  IF phone = NULL \/ phone = "" THEN NULL
  ELSE LET digits == removeNonDigits(phone)
       IN  IF startsWith(digits, "234") THEN "+" \o digits
           ELSE IF startsWith(digits, "0") THEN "+234" \o SubSeq(digits, 2, Len(digits))
           ELSE IF Len(digits) = 10 THEN "+234" \o digits
           ELSE "+" \o digits

\* ten-digit subscriber numbers of the mobile ranges (70x, 71x, 80x, 81x, 90x, 91x)
Subscribers ==
  {a \o b \o rest : a \in {"7", "8", "9"}, b \in {"0", "1"},
                    rest \in {"12345678", "00000000", "23400234"}}

PhoneForms == {"local", "bare", "country", "international"}
PhonePrefix(form) ==
  CASE form = "local" -> "0"
    [] form = "bare" -> ""
    [] form = "country" -> "234"
    [] form = "international" -> "+234"

\* a subscriber number as it is written, with or without separators
Written(subscriber, form, spaced) ==
  IF spaced
    THEN PhonePrefix(form) \o " " \o SubSeq(subscriber, 1, 3) \o "-"
           \o SubSeq(subscriber, 4, 6) \o " " \o SubSeq(subscriber, 7, 10)
    ELSE PhonePrefix(form) \o subscriber

OtherPhones == {"", NULL, "12345", "0", "+", "n/a", "+44 20 7946 0018"}

PhoneInputs ==
  {[subscriber |-> n, form |-> f, phone |-> Written(n, f, spaced)] :
     n \in Subscribers, f \in PhoneForms, spaced \in BOOLEAN}
    \cup {[subscriber |-> NULL, form |-> "other", phone |-> p] : p \in OtherPhones}

NoPhone == [called |-> FALSE, result |-> NULL, again |-> NULL]

InitPhone ==
  /\ InitStoreOnly
  /\ InitConfIdle /\ InitUssdIdle /\ InitTextIdle /\ InitLimiterIdle /\ InitRaceIdle /\ InitSinkIdle
  /\ phoneIn \in PhoneInputs
  /\ phoneOut = NoPhone

\* formatPhoneNumber(phone), and formatPhoneNumber of what it returned
FormatPhoneNumber ==
  /\ ~phoneOut.called
  /\ LET result == formatPhoneNumber(phoneIn.phone)
     IN  phoneOut' = [called |-> TRUE, result |-> result,
                      again |-> formatPhoneNumber(result)]
  /\ UNCHANGED <<storeVars, simVars, matchVars, confVars, ussdVars, textVars, phoneIn,
                 limiterVars, raceVars, sinkVars>>

NextPhone == FormatPhoneNumber

SpecPhone == InitPhone /\ [][NextPhone]_vars

C21_LevelWithinRange ==
  /\ \A row \in Range(incidents) : row.escalationLevel \in 0 .. 5
  /\ \A row \in Range(incidents) :
       row.escalationLevel >= 5 =>
         processIncident(row, rules, responders, now)
           = {Outcome(row, rules, <<>>, FALSE, "max_level_reached", NULL)}

(***************************************************************************)
(* Further claims about the USSD dialogue, checked under SpecUssd.         *)
(***************************************************************************)
\* a confirmation turn (input 1) on a live session that did not complete it
FailedConfirmation(id) ==
  /\ TurnOn(id)
  /\ WithinTimeout(id)
  /\ sessions[id].state = "confirmation"
  /\ lastTurn'.input = "1"
  /\ sessions'[id].state # "completed"

Deliveries == 1 .. 2
RaceSession == "sess-1"
RaceInputs == {"", "1", "2"}

Received(input) ==
  [pc |-> "received", input |-> input, found |-> FALSE,
   session |-> createSession(RaceSession, "+2348012345678", StartTime),
   error |-> "none", response |-> "none"]

\* UssdSession.findOne({ where: { sessionId } })
FindSession(p) ==
  /\ turns[p].pc = "received"
  /\ turns' = [turns EXCEPT ![p] =
       IF RaceSession \in DOMAIN sessions
         THEN [@ EXCEPT !.pc = "loaded", !.found = TRUE, !.session = sessions[RaceSession]]
         ELSE [@ EXCEPT !.pc = "missing"]]
  /\ UNCHANGED <<storeVars, simVars, matchVars, confVars, ussdVars, textVars, phoneVars,
                 limiterVars, sinkVars>>

\* createSession: UssdSession.create; sessionId is a unique column, so the
\* insert of a second row for the id is rejected and the turn ends in that error
CreateSession(p) ==
  /\ turns[p].pc = "missing"
  /\ IF RaceSession \in DOMAIN sessions
       THEN /\ turns' = [turns EXCEPT ![p] =
                  [@ EXCEPT !.pc = "done", !.error = "SequelizeUniqueConstraintError",
                            !.response = "error"]]
            /\ UNCHANGED sessions
       ELSE LET created == createSession(RaceSession, "+2348012345678", now)
            IN  /\ sessions' = [id \in DOMAIN sessions \cup {RaceSession} |->
                                  IF id = RaceSession THEN created ELSE sessions[id]]
                /\ turns' = [turns EXCEPT ![p] =
                      [@ EXCEPT !.pc = "loaded", !.session = created]]
  /\ UNCHANGED <<storeVars, simVars, matchVars, confVars, lastTurn, textVars, phoneVars,
                 limiterVars, sinkVars>>

\* session.save() writes the attributes the execution changed on its object
SaveChanged(row, loaded, saved) ==
  [f \in DOMAIN row |-> IF saved[f] # loaded[f] THEN saved[f] ELSE row[f]]

\* the rest of handleRequest on the loaded session: timeout test, handler, save
ProcessTurn(p) ==
  /\ turns[p].pc = "loaded"
  /\ \E r \in handleRequest(RaceSession, "+2348012345678", turns[p].input, "No new alerts.",
                            SessionTable({turns[p].session}), incidents, rules,
                            responders, now) :
       /\ sessions' = [sessions EXCEPT ![RaceSession] =
                         SaveChanged(@, turns[p].session, r.sessions[RaceSession])]
       /\ incidents' = r.incidents
       /\ rules' = r.rules
       /\ notifications' = notifications \o r.sent
       /\ turns' = [turns EXCEPT ![p] =
            [@ EXCEPT !.pc = "done", !.response = r.reply.response,
                      !.error = IF r.reply = Thrown THEN "TypeError" ELSE "none"]]
  /\ UNCHANGED <<responders, now, nOps, lastOp, lastTurn, simVars, matchVars, confVars,
                 textVars, phoneVars, limiterVars, sinkVars>>

InitRace ==
  /\ incidents = <<>>
  /\ sessions \in {SessionTable({})} \cup {SessionTable({x}) : x \in StoredSessions}
  /\ rules = RuleTable(SeededRules)
  /\ responders = SomeResponders
  /\ notifications = <<>>
  /\ now = StartTime
  /\ nOps = 0
  /\ lastOp = NoOp
  /\ simIn = <<>>
  /\ simOut = <<>>
  /\ matchIn = <<>>
  /\ matchOut = <<>>
  /\ InitConfIdle /\ InitTextIdle /\ InitPhoneIdle /\ InitLimiterIdle /\ InitSinkIdle
  /\ lastTurn = NoTurn
  /\ turns \in [Deliveries -> {Received(input) : input \in RaceInputs}]

NextRace ==
  \E p \in Deliveries : FindSession(p) \/ CreateSession(p) \/ ProcessTurn(p)

SpecRace == InitRace /\ [][NextRace]_vars

IncidentsOf(sessionId) ==
  {i \in DOMAIN incidents : incidents[i].reporterSessionId = sessionId}

\* C23: overlapping turns on one session id create at most one incident, whose
\* id the session holds in the end, and two overlapping first turns for a new
\* session id leave one session record with neither turn ending in an error.
C23_OverlappingTurnsTakeEffectOnce ==
  /\ Cardinality(IncidentsOf(RaceSession)) <= 1
  /\ (\A p \in Deliveries : turns[p].pc = "done") =>
       /\ \A i \in IncidentsOf(RaceSession) : sessions[RaceSession].incidentId = i
       /\ (\A p \in Deliveries : ~turns[p].found) =>
            /\ RaceSession \in DOMAIN sessions
            /\ \A p \in Deliveries : turns[p].error = "none"

(***************************************************************************)
(* Claims about the order of the dialogue, checked under SpecUssd.         *)
(***************************************************************************)
\* C24: a turn on a session whose state is completed or timeout changes
\* neither its state nor its draft and creates no incident, and no session id
\* has more than one incident.
C24_TerminalStatesStay ==
  [][\A id \in UssdSessionIds :
       (TurnOn(id) /\ sessions[id].state \in {"completed", "timeout"}) =>
         /\ sessions'[id].state = sessions[id].state
         /\ Draft(sessions'[id]) = Draft(sessions[id])
         /\ incidents' = incidents
         /\ Cardinality({i \in DOMAIN incidents' :
                           incidents'[i].reporterSessionId = id}) <= 1]_vars

\* how far along the reporting chain a dialogue state is
ChainStep(state) ==
  CASE state = "incident_category" -> 1
    [] state = "severity_selection" -> 2
    [] state = "location_selection" -> 3
    [] state = "description" -> 4
    [] state = "callback_consent" -> 5
    [] state = "confirmation" -> 6
    [] OTHER -> 0

\* the state a turn found the session in (a new session starts in main_menu)
StateBefore(id) == IF id \in DOMAIN sessions THEN sessions[id].state ELSE "main_menu"

\* C25: no turn advances a session by more than one step of the chain
\* main_menu, incident_category, severity_selection, location_selection,
\* description, callback_consent, confirmation, so confirmation is entered
\* from callback_consent only; and a turn creates an incident only when it
\* found the session in confirmation.
C25_OneStepAtATime ==
  [][\A id \in UssdSessionIds :
       (nOps' = nOps + 1 /\ lastTurn'.sessionId = id) =>
         /\ ChainStep(sessions'[id].state) <= ChainStep(StateBefore(id)) + 1
         /\ incidents' # incidents => StateBefore(id) = "confirmation"]_vars

\* a stored session went from description over callback_consent to confirmation
C25_Witness ==
  /\ nOps = 2
  /\ lastTurn.sessionId = "sess-1"
  /\ lastTurn.input = "2"
  /\ sessions["sess-1"].state = "confirmation"
  /\ sessions["sess-1"].dataDescription = "near the market"
  /\ ~sessions["sess-1"].dataCallbackConsent
  /\ sessions["sess-1"].lastActivityAt > StartTime

\* the types a help request is turned into at the category step
HelpTypes == {medicalMap(c) : c \in 1 .. 4}

IdleInputs == {"", "1", "5", "9"}

NextIdle ==
  \/ \E input \in IdleInputs : HandleRequest("sess-1", "+2348012345678", input, "No new alerts.")
  \/ Advance(2, 4 * MaxTime)

SpecIdle == InitUssd /\ [][NextIdle]_vars

\* C27: a turn that comes within the timeout threshold of the session's
\* previous turn does not set the session to timeout, whatever the previous
\* turn's input was.
C27_ActiveSessionNotTimedOut ==
  [][\A id \in UssdSessionIds :
       (/\ TurnOn(id)
        /\ lastTurn.sessionId = id
        /\ (now - lastTurn.at) * 60000 <= sessionTimeoutMs
        /\ sessions[id].state # "timeout")
       => sessions'[id].state # "timeout"]_vars

(***************************************************************************)
(* Claims about assignees, rule statistics and notifications, checked      *)
(* under SpecEsc.                                                          *)
(***************************************************************************)
\* the responders the tiers select: state and LGA, else state only, else no
\* affinity, else the hardcoded contact
TierAssignees(type, incident, rsp) ==
  LET active == {r \in rsp : r.type = type /\ r.status = "active"}
      both == {r \in active : r.state = incident.locationState
                                /\ r.lga = incident.locationLga}
      stateOnly == {r \in active : r.state = incident.locationState /\ r.lga = NULL}
      anywhere == {r \in active : r.state = NULL /\ r.lga = NULL}
  IN  IF both # {} THEN {r.name : r \in both}
      ELSE IF stateOnly # {} THEN {r.name : r \in stateOnly}
      ELSE IF anywhere # {} THEN {r.name : r \in anywhere}
      ELSE {DefaultResponder.contactName}

RequiredType(level) == IF level >= 3 THEN "agency_liaison" ELSE "community_focal"

\* C28: escalateToLevel, and processIncident when no rule matches, assign a
\* responder of the first non-empty tier; the type is agency_liaison for
\* level 3 or more and community_focal otherwise.
C28_AssigneeByTier ==
  [][/\ (/\ IsCall("escalateToLevel")
         /\ lastOp'.id \in DOMAIN incidents
         /\ lastOp'.argNum > incidents[lastOp'.id].escalationLevel)
        => incidents'[lastOp'.id].escalationAssignedToName
             \in TierAssignees(RequiredType(lastOp'.argNum), incidents[lastOp'.id],
                               responders)
     /\ (/\ IsCall("processIncident")
         /\ incidents[lastOp'.id].escalationLevel < 5
         /\ findMatchingRules(incidents[lastOp'.id], rules, Clock(now)) = {})
        => incidents'[lastOp'.id].escalationAssignedToName
             \in TierAssignees(
                   RequiredType(OrNum(severityToLevel(incidents[lastOp'.id].severity), 1)),
                   incidents[lastOp'.id], responders)]_vars

\* how often a rule's id stands in the triggered lists of the stored incidents
Applications(ruleId) ==
  Cardinality({<<i, k>> \in (DOMAIN incidents) \X (1 .. MaxOps + 1) :
                 /\ k <= Len(incidents[i].escalationRulesTriggered)
                 /\ incidents[i].escalationRulesTriggered[k] = ruleId})

\* C29: each rule's triggerCount is its initial value, 0, plus the number of
\* times the rule was applied to an incident.
C29_TriggerCountCountsApplications ==
  \A id \in DOMAIN rules : rules[id].triggerCount = Applications(id)

\* the notification for the escalation a call just stored cannot be dispatched
DispatchFails(row) ==
  sendEscalationNotification(row, "Default Severity Escalation", row.escalationLevel).threw

\* C30: when the escalation notification cannot be dispatched while
\* processIncident applies a rule or the default escalation, the incident's
\* escalation state stays stored and processIncident does not end in an error.
C30_NotificationFailureContained ==
  [][(/\ IsCall("processIncident")
      /\ incidents[lastOp'.id].escalationLevel < 5
      /\ DispatchFails(incidents'[lastOp'.id]))
     => (/\ incidents'[lastOp'.id].status = "escalated"
         /\ Len(incidents'[lastOp'.id].escalationRulesTriggered)
              = Len(incidents[lastOp'.id].escalationRulesTriggered) + 1
         /\ ~lastOp'.threw)]_vars

(***************************************************************************)
(* Rule statistics and the matcher.                                        *)
(***************************************************************************)
\* the rule table with the cooldown and the trigger statistics of every rule
\* replaced
WithStatistics(rls, cooldown, last, count) ==
  [id \in DOMAIN rls |->
     [rls[id] EXCEPT !.cooldownMinutes = cooldown, !.lastTriggered = last,
                     !.triggerCount = count]]

\* what processIncident does to the incident: the row it stores, the
\* notifications it sends, the rule it reports and how it ends
IncidentEffects(incident, rls) ==
  {[row |-> o.row, sent |-> o.sent, ruleId |-> o.ruleId, threw |-> o.threw,
    value |-> o.value] : o \in processIncident(incident, rls, responders, now)}

\* C31: processIncident selects the same rule and leaves the same incident row
\* and notifications whatever the rules' cooldownMinutes, lastTriggered and
\* triggerCount are; a rule applied to an incident still below level 5 is
\* applied again by the next processIncident call although it has just triggered.
C31_StatisticsDoNotSuppress ==
  \A id \in DOMAIN incidents :
    /\ \A cooldown \in {0, 30, 120}, last \in {NoNum, now}, count \in {0, 1} :
         IncidentEffects(incidents[id], WithStatistics(rules, cooldown, last, count))
           = IncidentEffects(incidents[id], rules)
    /\ LET row == incidents[id]
           n == Len(row.escalationRulesTriggered)
       IN  (/\ n > 0
            /\ row.escalationRulesTriggered[n] \in DOMAIN rules
            /\ row.escalationLevel < 5
            /\ rules[row.escalationRulesTriggered[n]]
                 \in firstMatchingRules(row, rules, Clock(now)))
           => \E o \in IncidentEffects(
                         row, WithStatistics(rules, 120, now, 1)) :
                o.row.escalationRulesTriggered
                  = Append(row.escalationRulesTriggered, row.escalationRulesTriggered[n])

\* a second processIncident call has applied the rule of the first again
C31_Witness ==
  /\ lastOp.op = "processIncident"
  /\ lastOp.id \in DOMAIN incidents
  /\ LET triggered == incidents[lastOp.id].escalationRulesTriggered
     IN  /\ Len(triggered) >= 2
         /\ triggered[Len(triggered)] = triggered[Len(triggered) - 1]
         /\ triggered[Len(triggered)] \in DOMAIN rules

AfricasTalkingAnswers == {"Success", "InsufficientBalance", "NoRecipients", "raised"}
\* the answers of Twilio: a message resource, or an error
TwilioAnswers == {"queued", "raised"}

sendViaAfricasTalking(answer) ==
  CASE answer = "raised" -> [threw |-> TRUE, success |-> FALSE, provider |-> "africastalking"]
    [] answer = "Success" -> [threw |-> FALSE, success |-> TRUE, provider |-> "africastalking"]
    [] answer = "NoRecipients" -> [threw |-> FALSE, success |-> TRUE, provider |-> NULL]
    [] OTHER -> [threw |-> FALSE, success |-> FALSE, provider |-> "africastalking"]

sendViaTwilio(answer) ==
  IF answer = "raised"
  THEN [threw |-> TRUE, success |-> FALSE, provider |-> "twilio"]
  ELSE [threw |-> FALSE, success |-> TRUE, provider |-> "twilio"]

queueMessage(queue, to, message) ==
  Append(queue, [type |-> "sms", to |-> to, message |-> message, retryCount |-> 0])

SmsResult(success, queued, provider) ==
  [success |-> success, queued |-> queued, provider |-> provider]

\* the outcomes of sendSms(to, message) on the service `svc`: the service
\* afterwards (queue and the provider calls made) and the value returned
sendSms(svc, to, message) ==
  LET phoneNumber == formatPhoneNumber(to)
      Tried(provider, answer) ==
        [message |-> message, provider |-> provider, answer |-> answer]
      Caught(sends) ==
        [svc |-> [svc EXCEPT !.messageQueue = queueMessage(@, phoneNumber, message),
                             !.sends = @ \o sends],
         result |-> SmsResult(FALSE, TRUE, NULL)]
      Returned(sends, result) ==
        [svc |-> [svc EXCEPT !.sends = @ \o sends], result |-> result]
      AfterPrimary(sends) ==
        IF svc.twilioClient
        THEN {LET w == sendViaTwilio(t)
                  all == Append(sends, Tried("twilio", t))
              IN  IF w.threw THEN Caught(all)
                  ELSE Returned(all, SmsResult(w.success, FALSE, w.provider))
              : t \in TwilioAnswers}
        ELSE {Returned(sends, SmsResult(TRUE, FALSE, "dev"))}
  IN  IF phoneNumber = NULL
      THEN {Returned(<<>>, SmsResult(FALSE, FALSE, NULL))}
      ELSE IF svc.africastalking
      THEN UNION {LET r == sendViaAfricasTalking(a)
                      sends == <<Tried("africastalking", a)>>
                  IN  IF r.threw THEN {Caught(sends)}
                      ELSE IF r.success
                      THEN {Returned(sends, SmsResult(TRUE, FALSE, r.provider))}
                      ELSE AfterPrimary(sends)
                  : a \in AfricasTalkingAnswers}
      ELSE AfterPrimary(<<>>)

\* the loop of processQueue over the messages taken from the queue: the
\* services it may end with.  sendSms catches every provider error itself, so
\* the catch of the loop, which would put the message back, is never entered.
RECURSIVE processMessages(_, _)
processMessages(svc, messages) ==
  IF messages = <<>> THEN {svc}
  ELSE LET msg == Head(messages)
       IN  IF msg.retryCount >= 3
           THEN processMessages(svc, Tail(messages))
           ELSE UNION {processMessages(o.svc, Tail(messages)) :
                         o \in sendSms(svc, msg.to, msg.message)}

processQueue(svc) ==
  IF Len(svc.messageQueue) = 0 THEN {svc}
  ELSE processMessages([svc EXCEPT !.messageQueue = <<>>], svc.messageQueue)

NewNotificationService(africastalking, twilio) ==
  [africastalking |-> africastalking, twilioClient |-> twilio,
   messageQueue |-> <<>>, sends |-> <<>>,
   last |-> [op |-> "none", message |-> NULL, result |-> SmsResult(FALSE, FALSE, NULL),
             from |-> 0]]

\* provider calls in one behaviour
MaxSends == 2 * MaxOps
SmsRecipients == {"08012345678", ""}
SmsTexts == {"ESCALATION HIGH", "Your report has been received."}

SendSms(to, message) ==
  /\ Len(sms.sends) < MaxSends
  /\ \A q \in 1 .. Len(sms.messageQueue) : sms.messageQueue[q].message # message
  /\ \A q \in 1 .. Len(sms.sends) : sms.sends[q].message # message
  /\ \E o \in sendSms(sms, to, message) :
       sms' = [o.svc EXCEPT !.last = [op |-> "sendSms", message |-> message,
                                      result |-> o.result, from |-> Len(sms.sends)]]
  /\ UNCHANGED <<storeVars, simVars, matchVars, confVars, ussdVars, textVars, phoneVars,
                 limiterVars, raceVars, inflight>>

ProcessQueue ==
  /\ Len(sms.sends) < MaxSends
  /\ \E svc \in processQueue(sms) :
       sms' = [svc EXCEPT !.last = [op |-> "processQueue", message |-> NULL,
                                    result |-> SmsResult(FALSE, FALSE, NULL),
                                    from |-> Len(sms.sends)]]
  /\ UNCHANGED <<storeVars, simVars, matchVars, confVars, ussdVars, textVars, phoneVars,
                 limiterVars, raceVars, inflight>>

InitSms ==
  /\ InitStoreOnly
  /\ InitConfIdle /\ InitUssdIdle /\ InitTextIdle /\ InitPhoneIdle /\ InitLimiterIdle
  /\ InitRaceIdle
  /\ inflight = <<>>
  /\ sms \in {NewNotificationService(a, t) : a \in BOOLEAN, t \in BOOLEAN}

NextSms ==
  \/ \E to \in SmsRecipients, message \in SmsTexts : SendSms(to, message)
  \/ ProcessQueue

SpecSms == InitSms /\ [][NextSms]_vars

\* the provider calls made for a message
SendsOf(message) == {q \in 1 .. Len(sms.sends) : sms.sends[q].message = message}

\* C33: a message whose every provider call raised has been handed to a
\* provider at most four times (the first attempt and three retries), and once
\* it has been tried four times it is no longer in the queue.
C33_RetriesBounded ==
  \A message \in SmsTexts :
    (\A q \in SendsOf(message) : sms.sends[q].answer = "raised")
    => /\ Cardinality(SendsOf(message)) <= 4
       /\ Cardinality(SendsOf(message)) = 4
            => \A q \in 1 .. Len(sms.messageQueue) : sms.messageQueue[q].message # message

\* C40: sendSms returns success = true only if a provider accepted the message
\* in this call or no provider is configured.
C40_SuccessMeansAccepted ==
  (sms.last.op = "sendSms" /\ sms.last.result.success)
  => \/ ~ sms.africastalking /\ ~ sms.twilioClient
     \/ \E q \in sms.last.from + 1 .. Len(sms.sends) :
          sms.sends[q].answer \in {"Success", "NoRecipients", "queued"}

(***************************************************************************)
(* Background jobs and maintenance calls over the incident store           *)
(* (SpecJobs): batchUpdateScores, mergeIncidents, clusterIncidents.        *)
(***************************************************************************)
\* what calculateConfidenceScore reads of a stored row: a report without
\* reporter phone number, cell tower or GPS accuracy
ScoringInput(row) ==
  [channel |-> row.channel, reporterCallbackConsent |-> FALSE,
   reporterPhoneNumber |-> NULL, reporterAnonymous |-> TRUE,
   createdHour |-> (row.createdAt \div 60) % 24,
   locationLatitude |-> row.locationLatitude, locationLongitude |-> row.locationLongitude,
   locationAccuracy |-> NoNum, locationCellTowerId |-> NULL,
   locationVillage |-> row.locationVillage, locationLga |-> row.locationLga,
   descriptionLength |-> IF TruthyStr(row.descriptionText) THEN Len(row.descriptionText)
                         ELSE 0,
   confidenceDeDuplicationScore |-> row.confidenceDeDuplicationScore]

TerminalStatuses == {"resolved", "closed", "expired"}

\* a rescoring that moves the stored score half way to the computed one
batchUpdateScores_Smoothed(store, hoursBack, t) ==
  [id \in DOMAIN store |->
     IF store[id].createdAt >= t - hoursBack * 60 /\ store[id].status \notin TerminalStatuses
     THEN [store[id] EXCEPT
             !.confidenceScore =
               (@ + calculateConfidenceScore(ScoringInput(store[id]), 0).score) \div 2]
     ELSE store[id]]

\* the store after batchUpdateScores(hoursBack) at time t; incident.save()
\* writes the one attribute the job assigned
batchUpdateScores(store, hoursBack, t) ==
  [id \in DOMAIN store |->
     IF store[id].createdAt >= t - hoursBack * 60 /\ store[id].status \notin TerminalStatuses
     THEN [store[id] EXCEPT
             !.confidenceScore = calculateConfidenceScore(ScoringInput(store[id]), 0).score]
     ELSE store[id]]

BatchUpdateScores(hoursBack) ==
  /\ nOps < MaxOps
  /\ incidents' = batchUpdateScores(incidents, hoursBack, now)
  /\ lastOp' = Call("batchUpdateScores", 0, hoursBack, NULL, FALSE, "results", NULL)
  /\ nOps' = nOps + 1
  /\ UNCHANGED <<rules, notifications, responders, now, simVars, matchVars, extVars>>

\* the loop of mergeIncidents over secondaryIds: each secondary is read from
\* the store, may fill the description held by the primary object, and is
\* saved as merged
RECURSIVE mergeSecondaries(_, _, _)
mergeSecondaries(store, description, secondaryIds) ==
  IF secondaryIds = <<>> THEN [store |-> store, description |-> description]
  ELSE LET secondaryId == Head(secondaryIds)
       IN  IF secondaryId \notin DOMAIN store
           THEN mergeSecondaries(store, description, Tail(secondaryIds))
           ELSE LET secondary == store[secondaryId]
                    filled == IF TruthyStr(secondary.descriptionText) /\ ~ TruthyStr(description)
                              THEN secondary.descriptionText ELSE description
                IN  mergeSecondaries([store EXCEPT ![secondaryId].status = "merged"],
                                     filled, Tail(secondaryIds))

\* the store after mergeIncidents(primaryId, secondaryIds) for a stored
\* primary; primary.save() writes the description if the loop assigned it
mergeIncidents(store, primaryId, secondaryIds) ==
  LET m == mergeSecondaries(store, store[primaryId].descriptionText, secondaryIds)
  IN  IF m.description # store[primaryId].descriptionText
      THEN [m.store EXCEPT ![primaryId].descriptionText = m.description]
      ELSE m.store

MergeIncidents(primaryId, secondaryIds) ==
  /\ nOps < MaxOps
  /\ IF primaryId \notin DOMAIN incidents
     THEN /\ lastOp' = Call("mergeIncidents", primaryId, NoNum, NULL, TRUE, "not_found", NULL)
                         @@ [secondaryIds |-> secondaryIds]
          /\ UNCHANGED incidents
     ELSE /\ incidents' = mergeIncidents(incidents, primaryId, secondaryIds)
          /\ lastOp' = Call("mergeIncidents", primaryId, NoNum, NULL, FALSE, "incident", NULL)
                         @@ [secondaryIds |-> secondaryIds]
  /\ nOps' = nOps + 1
  /\ UNCHANGED <<rules, notifications, responders, now, simVars, matchVars, extVars>>

\* the loop of clusterIncidents over the recent incidents: the cluster lists
\* it may build (findDuplicates returns its list in one of several orders)
RECURSIVE clusterLoop(_, _, _, _, _)
clusterLoop(store, t, recent, processed, clusters) ==
  IF recent = <<>> THEN {clusters}
  ELSE LET incident == Head(recent)
       IN  IF incident.incidentId \in processed
           THEN clusterLoop(store, t, Tail(recent), processed, clusters)
           ELSE UNION {LET Fresh(dup) == dup.incidentId \notin processed
                           added == SelectSeq(duplicates, Fresh)
                           related == <<incident.incidentId>>
                                        \o [k \in 1 .. Len(added) |-> added[k].incidentId]
                       IN  clusterLoop(store, t, Tail(recent),
                                       processed \cup {related[k] : k \in 1 .. Len(related)},
                                       Append(clusters,
                                              [primaryIncident |-> incident.incidentId,
                                               relatedIncidents |-> related,
                                               count |-> Len(related)]))
                       : duplicates \in findDuplicates(incident, store, t)}

\* clustering that reports only the incidents that have duplicates
clusterIncidents_OnlyDuplicated(store, t) ==
  {SelectSeq(clusters, LAMBDA c : c.count > 1) :
     clusters \in UNION {clusterLoop(store, t, recent, {}, <<>>) :
                           recent \in OrderByCreatedAtDesc(
                                        {r \in Range(store) :
                                           r.status = "received" /\ r.createdAt >= t - 60})}}

\* the results clusterIncidents() may return at time t
clusterIncidents(store, t) ==
  UNION {clusterLoop(store, t, recent, {}, <<>>) :
           recent \in OrderByCreatedAtDesc(
                        {r \in Range(store) : r.status = "received" /\ r.createdAt >= t - 60})}

ClusterIncidents ==
  /\ nOps < MaxOps
  /\ \E clusters \in clusterIncidents(incidents, now) :
       lastOp' = Call("clusterIncidents", 0, NoNum, NULL, FALSE, "clusters", NULL)
                   @@ [clusters |-> clusters]
  /\ nOps' = nOps + 1
  /\ UNCHANGED <<incidents, rules, notifications, responders, now, simVars, matchVars,
                 extVars>>

\* reports the store holds when the jobs run: two thefts at one place, with or
\* without a description, the second one possibly resolved or an hour older
JobLocation == [NoLocation EXCEPT !.state = "Kano", !.lga = "Dala", !.village = "Kura"]
JobStores ==
  {Put(Put(<<>>,
           [NewIncident(1, "ussd", "theft", "high", JobLocation, "sess-1", StartTime)
              EXCEPT !.descriptionText = d1]),
       [NewIncident(2, "web", "theft", "high", JobLocation, NULL, StartTime - age)
          EXCEPT !.descriptionText = d2, !.status = st])
   : d1 \in {NULL, "at the shop"}, d2 \in {NULL, "two men on a motorcycle, near the gate"},
     st \in {"received", "resolved"}, age \in {0, 90}}

\* the secondary lists: stored ids, the primary's own id, an unknown id
SecondaryLists ==
  {<<>>} \cup {<<a>> : a \in 1 .. MaxIncidents + 1}
  \cup {<<a, b>> : a \in 1 .. MaxIncidents + 1, b \in 1 .. MaxIncidents}

InitJobs ==
  /\ incidents \in JobStores
  /\ rules = RuleTable(SeededRules)
  /\ responders = SomeResponders
  /\ notifications = <<>>
  /\ now = StartTime
  /\ nOps = 0
  /\ lastOp = NoOp
  /\ InitPure

NextJobs ==
  \/ \E hoursBack \in {1, 24} : BatchUpdateScores(hoursBack)
  \/ \E primaryId \in 1 .. MaxIncidents + 1, secondaryIds \in SecondaryLists :
       MergeIncidents(primaryId, secondaryIds)
  \/ ClusterIncidents
  \/ \E id \in IncidentIds, st \in NewStatuses : UpdateStatus(id, st)
  \/ Advance(1, MaxTime)

SpecJobs == InitJobs /\ [][NextJobs]_vars

(***************************************************************************)
(* Claims about the jobs, checked under SpecJobs.                          *)
(***************************************************************************)
\* the rows batchUpdateScores(hoursBack) selects
Rescored(hoursBack) ==
  {id \in DOMAIN incidents :
     /\ incidents[id].createdAt >= now - hoursBack * 60
     /\ incidents[id].status \notin TerminalStatuses}

\* C34: batchUpdateScores changes nothing but the confidenceScore of the
\* incidents of the trailing window that are not resolved, closed or expired;
\* it changes no rule and sends no notification; and a second run right after
\* the first leaves every incident as the first left it.
C34_RescoringChangesScoresOnly ==
  [][IsCall("batchUpdateScores")
     => /\ rules' = rules
        /\ notifications' = notifications
        /\ DOMAIN incidents' = DOMAIN incidents
        /\ \A id \in DOMAIN incidents :
             /\ [incidents'[id] EXCEPT !.confidenceScore = incidents[id].confidenceScore]
                  = incidents[id]
             /\ id \notin Rescored(lastOp'.argNum) => incidents'[id] = incidents[id]
        /\ batchUpdateScores(incidents', lastOp'.argNum, now') = incidents']_vars

\* a run rescored one incident and passed over a resolved one
C34_Witness ==
  /\ lastOp.op = "batchUpdateScores"
  /\ \E id \in DOMAIN incidents :
       incidents[id].status = "received" /\ incidents[id].confidenceScore # 50
  /\ \E id \in DOMAIN incidents :
       incidents[id].status = "resolved" /\ incidents[id].confidenceScore = 50

\* the ids of a list
Ids(list) == {list[k] : k \in 1 .. Len(list)}

RecentReceived ==
  {id \in DOMAIN incidents :
     incidents[id].status = "received" /\ incidents[id].createdAt >= now - 60}

\* C36: in the result of clusterIncidents no incident id is related to two
\* clusters, no incident of an earlier cluster is the primary of a later one,
\* and every received incident of the last 60 minutes is in exactly one cluster.
C36_ClustersPartition ==
  [][IsCall("clusterIncidents")
     => LET clusters == lastOp'.clusters
            n == Len(clusters)
            Holding(id) == {k \in 1 .. n : id \in Ids(clusters[k].relatedIncidents)}
        IN  /\ \A id \in DOMAIN incidents : Cardinality(Holding(id)) <= 1
            /\ \A i, j \in 1 .. n :
                 i < j => clusters[j].primaryIncident \notin Ids(clusters[i].relatedIncidents)
            /\ \A id \in RecentReceived : Cardinality(Holding(id)) = 1]_vars

\* a run over two recent received incidents returned two clusters
C36_Witness ==
  /\ lastOp.op = "clusterIncidents"
  /\ Len(lastOp.clusters) = 2
  /\ \A id \in DOMAIN incidents : incidents[id].status = "received"

(***************************************************************************)
(* Session retention (SpecClean): UssdSession.cleanOldSessions over a      *)
(* table that holds sessions of earlier days.                              *)
(***************************************************************************)
\* the table after cleanOldSessions(hoursOld) at time t
cleanOldSessions(tbl, hoursOld, t) ==
  LET destroyed == {id \in DOMAIN tbl :
                      /\ tbl[id].lastActivityAt < t - hoursOld * 60
                      /\ tbl[id].state \notin {"completed", "timeout"}}
  IN  [id \in DOMAIN tbl \ destroyed |-> tbl[id]]

CleanOldSessions(hoursOld) ==
  /\ nOps < MaxOps
  /\ sessions' = cleanOldSessions(sessions, hoursOld, now)
  /\ lastOp' = Call("cleanOldSessions", 0, hoursOld, NULL, FALSE, NULL, NULL)
  /\ nOps' = nOps + 1
  /\ UNCHANGED <<incidents, rules, notifications, responders, now, lastTurn,
                 simVars, matchVars, confVars, textVars, phoneVars, limiterVars, raceVars,
                 sinkVars>>

\* sessions last active just now or 25 hours ago, in a dialogue state or ended
AgedSessions(sessionId) ==
  {[StoredSession(sessionId, "english", st, "kidnap", "critical", "", FALSE)
      EXCEPT !.lastActivityAt = StartTime - age]
   : st \in {"main_menu", "confirmation", "completed", "timeout"}, age \in {0, 1500}}

InitClean ==
  /\ incidents = <<>>
  /\ sessions \in {SessionTable({a, b}) : a \in AgedSessions("sess-1"),
                                           b \in AgedSessions("sess-2")}
  /\ rules = RuleTable(SeededRules)
  /\ responders = SomeResponders
  /\ notifications = <<>>
  /\ now = StartTime
  /\ nOps = 0
  /\ lastOp = NoOp
  /\ simIn = <<>>
  /\ simOut = <<>>
  /\ matchIn = <<>>
  /\ matchOut = <<>>
  /\ InitConfIdle /\ InitTextIdle /\ InitPhoneIdle /\ InitLimiterIdle /\ InitRaceIdle
  /\ InitSinkIdle
  /\ lastTurn = NoTurn

NextClean ==
  \/ CleanOldSessions(24)
  \/ \E id \in UssdSessionIds, input \in {"1", "2"} :
       HandleRequest(id, "+2348012345678", input, "No new alerts.")
  \/ Advance(1, MaxTime)

SpecClean == InitClean /\ [][NextClean]_vars

\* C37: cleanOldSessions(24) removes every session that is not completed and
\* was last active more than 24 hours ago, sessions in state timeout among
\* them, and removes no completed session and no session active within the
\* last 24 hours.
C37_RetentionPurge ==
  [][IsCall("cleanOldSessions")
     => \A id \in DOMAIN sessions :
          IF sessions[id].state # "completed"
             /\ sessions[id].lastActivityAt < now - lastOp'.argNum * 60
          THEN id \notin DOMAIN sessions'
          ELSE id \in DOMAIN sessions' /\ sessions'[id] = sessions[id]]_vars

(***************************************************************************)
(* The draft's incident type (SpecUssd).                                   *)
(***************************************************************************)
\* the states a session passes after the category step, up to confirmation
AfterCategory ==
  {"severity_selection", "location_selection", "description", "callback_consent",
   "confirmation"}

LimiterCalls == 1 .. MaxOps

zRemRangeByScore(zsets, key, max) ==
  SetKey(zsets, key, {m \in MembersOf(zsets, key) : m.score > max})
zCard(zsets, key) == Cardinality(MembersOf(zsets, key))
\* a member of the same value is replaced
zAdd(zsets, key, score, value) ==
  SetKey(zsets, key,
         {m \in MembersOf(zsets, key) : m.value # value}
           \cup {[score |-> score, value |-> value]})

NotCalled == [pc |-> "idle", key |-> NULL, identifier |-> NULL, t |-> NoNum, count |-> NoNum]

\* const now = Date.now(); await this.client.zRemRangeByScore(key, '-inf', windowStart)
RemoveOldEntries(p, identifier) ==
  /\ inflight[p].pc = "idle"
  /\ LET key == "ussd:" \o identifier
     IN  /\ limiter' = [limiter EXCEPT
                          !.zsets = zRemRangeByScore(@, key, now - LimitOptions.windowMs)]
         /\ inflight' = [inflight EXCEPT ![p] =
                           [pc |-> "removed", key |-> key, identifier |-> identifier,
                            t |-> now, count |-> NoNum]]
  /\ UNCHANGED <<storeVars, simVars, matchVars, confVars, ussdVars, textVars, phoneVars,
                 limitLog, raceVars, sms>>

\* const count = await this.client.zCard(key)
CountRequests(p) ==
  /\ inflight[p].pc = "removed"
  /\ inflight' = [inflight EXCEPT ![p].pc = "counted",
                                  ![p].count = zCard(limiter.zsets, inflight[p].key)]
  /\ UNCHANGED <<storeVars, simVars, matchVars, confVars, ussdVars, textVars, phoneVars,
                 limiterVars, raceVars, sms>>

\* the rest of the call: the limited answer, or zAdd, expire and the admitted answer
AnswerRequest(p) ==
  /\ inflight[p].pc = "counted"
  /\ LET call == inflight[p]
         limited == call.count >= LimitOptions.maxRequests
     IN  /\ limiter' = IF limited THEN limiter
                       ELSE [limiter EXCEPT
                               !.zsets = zAdd(@, call.key, call.t, ToString(call.t))]
         /\ limitLog' = Append(limitLog,
              [identifier |-> call.identifier, t |-> call.t, backendFailed |-> FALSE,
               redis |-> TRUE,
               result |-> IF limited THEN Verdict(TRUE, 0)
                          ELSE Verdict(FALSE, LimitOptions.maxRequests - call.count - 1)])
  /\ inflight' = [inflight EXCEPT ![p].pc = "done"]
  /\ UNCHANGED <<storeVars, simVars, matchVars, confVars, ussdVars, textVars, phoneVars,
                 raceVars, sms>>

InitRedis ==
  /\ InitStoreOnly
  /\ InitConfIdle /\ InitUssdIdle /\ InitTextIdle /\ InitPhoneIdle /\ InitRaceIdle
  /\ sms = <<>>
  /\ limiter = [NewLimiter EXCEPT !.initialized = TRUE, !.client = TRUE, !.reachable = TRUE]
  /\ limitLog = <<>>
  /\ inflight = [p \in LimiterCalls |-> NotCalled]

NextRedis ==
  \/ \E p \in LimiterCalls, identifier \in LimitIdentifiers : RemoveOldEntries(p, identifier)
  \/ \E p \in LimiterCalls : CountRequests(p)
  \/ \E p \in LimiterCalls : AnswerRequest(p)
  \/ Advance(1, 3 * MaxTime)

SpecRedis == InitRedis /\ [][NextRedis]_vars

\* the calls of one key admitted with a timestamp in the window that ends at t
AdmittedWithin(identifier, t) ==
  {j \in 1 .. Len(limitLog) :
     /\ limitLog[j].identifier = identifier
     /\ limitLog[j].result.limited = FALSE
     /\ limitLog[j].t > t - LimitOptions.windowMs
     /\ limitLog[j].t <= t}

\* C39: with overlapping checkRateLimit calls on the Redis backend, the calls
\* of one key admitted within any window of windowMs never number more than
\* maxRequests.
C39_OverlappingChecksKeepLimit ==
  \A identifier \in LimitIdentifiers :
    \A i \in 1 .. Len(limitLog) :
      Cardinality(AdmittedWithin(identifier, limitLog[i].t)) <= LimitOptions.maxRequests

====
